---- MODULE Spec2Model ----
(***************************************************************************)
(* NOVA-PRO realtime client: the session protocol controller (useGemini),  *)
(* the capture / playback pipeline (useAudio) and the screen sampler       *)
(* (useScreen), modelled as one state machine.                             *)
(*                                                                         *)
(* The controller is the latest revision of useGemini, the one with the    *)
(* stability timer and the forced fast reconnect (src/hooks/useAudio.ts    *)
(* lines 237-646).                                                         *)
(*                                                                         *)
(* Environment: the remote session library calls onopen and then resolves  *)
(* the connect promise in the same turn of the event loop, so OnOpen is    *)
(* the callback followed by `sessionRef.current = session`.                *)
(*                                                                         *)
(* The specifications share the variables:                                 *)
(*   Spec      the controller against every behaviour of the link, with    *)
(*             the capture and screen producers; no inbound message;       *)
(*   SpecPlay  the playback scheduler fed by inbound audio;                *)
(*   SpecTool  the inbound message handler fed by tool-call batches;       *)
(*   SpecText  the inbound message handler fed by transcripts;             *)
(*   SpecInterrupt  playback and output transcript under interruptions;    *)
(*   SpecCapture    the capture callback, frame by frame, with the mute    *)
(*                  toggle of the user interface;                          *)
(*   SpecStop       the stop operations called again and again;            *)
(*   SpecScreen     the screen sampler, tick by tick;                      *)
(*   SpecBackoff    the delay computed by handleReconnect;                 *)
(*   SpecDecode     the playback chain with decodes that may fail;         *)
(*   SpecPermission the microphone and display prompts, granted or not;    *)
(*   SpecMixer      mixStream against the capture graph;                   *)
(*   SpecShare      screen sharing started and stopped, with the sampler;  *)
(*   SpecTranscript the message list and the transcript buffers, turn by   *)
(*                  turn, with tool calls between the turns;               *)
(*   SpecPixels     the change detection of the sampler, pixel by pixel;   *)
(*   SpecWorklet    the recorder worklet, block by block;                  *)
(*   SpecRecord     startRecording calls overlapping each other and        *)
(*                  stopAudio, across reconnects;                          *)
(*   SpecRoute      the mixer route driven by the mixStream effect;        *)
(* the sub-specifications follow one session (FirstConnect) or no session, *)
(* but SpecRecord and SpecRoute, which follow reconnects.                  *)
(***************************************************************************)
EXTENDS Integers, Sequences, FiniteSets, TLC

\* ------------------------------------------------------------------ bounds
\* Session objects that may be alive (or still referenced) at the same time.
MaxSessions == 2
\* Message records kept in the list since the last clearChat.
MaxMessages == 1
\* startRecording calls that may be in flight at the same time.
MaxRecording == 1
\* startRecording calls in flight at the same time where overlapping calls are
\* followed.
MaxOverlap == 2
\* Audio payloads passed to queueAudio in one run.
MaxPayloads == 2
\* Longest decoded buffer, in ticks of the output clock.
MaxDuration == 1
\* Last tick of the output clock.
MaxTime == 2
\* Function calls in one inbound tool-call batch.
MaxCalls == 2
\* Last value of Date.now().
MaxClock == 1
\* Longest transcript buffer, in characters.
MaxText == 2
\* Message records kept in the list while the transcripts are followed.
MaxRecords == 2
\* Ticks of the screen sampler in one run.
MaxTicks == 33
\* Distinct screen contents.
MaxFrames == 2
\* Largest attempt number the backoff delay is computed for.
MaxAttempt == 7
\* Evenly spaced values of the jitter.
JitterSteps == 20
\* External source nodes that may exist at the same time.
MaxMix == 3
\* Distinct screen contents whose pixels are followed.
MaxShots == 4
\* Entries of the pixel buffer of a followed screen content.
BufLen == 3200
\* Samples passed to the recorder worklet in one run.
MaxFed == 6200

\* --------------------------------------------------------- program constants
\* handleReconnect: `if (reconnectCountRef.current > 5)`.
MAX_ATTEMPTS == 5
\* queueAudio: `start = now + 0.02`; one tick of the output clock is 20 ms.
SCHEDULE_GUARD == 1

\* CONFIG.VAD_HYSTERESIS_FRAMES
VAD_HYSTERESIS_FRAMES == 40
\* CONFIG.VAD_THRESHOLD = 0.005; RMS values are in thousandths.
VAD_THRESHOLD == 5
\* CONFIG.VISUAL_MAX_DIMENSION
VISUAL_MAX_DIMENSION == 1920
\* useScreen: `now - lastFrameTimeRef.current > 3000`, in ms.
HEARTBEAT_MS == 3000
\* useScreen: setInterval(..., 1000 / PROCESSING_FPS) with PROCESSING_FPS = 10.
TICK_MS == 100
\* CONFIG.MAX_BACKOFF_MS
MAX_BACKOFF_MS == 10000
\* handleReconnect: `1000 * (1.5 ** reconnectCountRef.current)`.
BASE_DELAY_MS == 1000
\* handleReconnect: `Math.random() * 500`.
JITTER_MS == 500
\* RecorderProcessor: `this.bufferSize = 2048`.
BUFFER_SIZE == 2048
\* useScreen: `const sampleStep = 32`.
SAMPLE_STEP == 32
\* useScreen: `const threshold = 15`.
DIFF_THRESHOLD == 15
\* useScreen: `(totalPixels / sampleStep) * 0.01`, in hundredths.
CHANGE_PER_CENT == 1

DISCONNECTED == "DISCONNECTED"
CONNECTING == "CONNECTING"
CONNECTED == "CONNECTED"
ERROR == "ERROR"
ConnectionStatus == {DISCONNECTED, CONNECTING, CONNECTED, ERROR}

Sessions == 1..MaxSessions
\* sessionRef.current = null
NoSession == 0
\* Life of one session object returned by ai.live.connect:
\*   none        no such object
\*   connecting  ai.live.connect in flight, socket not open yet
\*   open        onopen delivered, promise resolved
\*   errored     onerror delivered, onclose still to come
\*   closing     close() called by the client, onclose still to come
\*   dead        onclose delivered or connect rejected: no callback will come
Phases == {"none", "connecting", "open", "errored", "closing", "dead"}

Payloads == 1..MaxPayloads
Durations == 1..MaxDuration

\* The RMS of a frame, in thousandths: silence, exactly the threshold, above it.
RmsLevels == {0, VAD_THRESHOLD, VAD_THRESHOLD + 1}

\* External source nodes; externalSourceRef.current = null is NoSource.
MixIds == 1..MaxMix
NoSource == 0

\* Screen contents; previousFrameDataRef.current = null is NoFrame.
Frames == 1..MaxFrames
NoFrame == 0
\* Screen contents with their pixel buffers.
Shots == 1..MaxShots
\* videoWidth x videoHeight of the shared surface: below the bound, above it
\* with a whole downscaled height, above it with a fractional one, upright.
Resolutions == {<<1280, 720>>, <<3840, 2160>>, <<3440, 1440>>, <<2160, 3840>>}
\* document.createElement('canvas'): the default size of a canvas.
DefaultCanvas == <<300, 150>>
\* No tick of the sampler has run yet.
NoSample == [size |-> <<0, 0>>, same |-> FALSE, sent |-> FALSE, why |-> "none"]

\* No delay computed yet.
NoDelay == -1

\* A message id: its prefix and the Date.now() it was built from.
Id(kind, at) == [kind |-> kind, at |-> at]
\* streamingMsgIdRef.current = null
NoId == Id("none", 0)
\* A record of the message list; a text is a sequence of characters.
Transcription(id, role, text) == [id |-> id, role |-> role, text |-> text]

VARIABLES
    \* ---- useGemini
    status,                     \* useState<ConnectionStatus>
    sessionRef,                 \* the stored session handle, or NoSession
    reconnectCountRef,
    isExplicitlyTerminatedRef,
    isReconnectingRef,
    stableConnectionTimerRef,   \* TRUE while the 5 s stability timer is pending
    reconnectTimers,            \* number of pending handleReconnect timers
    sessions,                   \* slot -> phase of the session object
    messages,                   \* the list of message records
    timerSurvivedDisconnect,    \* history: the pending reconnect timer predates a disconnect()
    streamingMsgIdRef,
    currentOutputTextRef,
    currentInputTextRef,
    isThinking,
    isSpeaking,
    sentToolResponses,          \* the sendToolResponse calls of the latest onMessage
    dateNow,                    \* Date.now()
    turnOpen,                   \* history: an output delta was handled since the last
                                \* turn-complete, interruption or tool call
    turnText,                   \* history: the output deltas of that turn, concatenated
    inputHeard,                 \* history: the input deltas since the last turn-complete
    \* ---- useAudio, capture side
    audioContexts,              \* TRUE once initializeAudio created the contexts
    workletNodeRef,             \* TRUE while a worklet node with its callback is installed
    installedCallbacks,         \* history: worklet nodes whose port.onmessage is set
    recordingPending,           \* startRecording calls still awaiting the device
    externalSourceRef,          \* the external source node mixStream keeps, or NoSource
    externalConnected,          \* the external source nodes connected to the worklet node
    \* ---- useAudio, playback side
    audioProcessingChain,       \* payloads of the current chain whose job has not finished
    staleChains,                \* chains replaced by stopAudio whose jobs still run
    sourcesRef,                 \* the active set (a source is named by its payload)
    sourceState,                \* payload -> "none" | "playing" | "stopped" | "ended"
    nextStartTimeRef,
    currentTime,                \* audioContextOut.currentTime, in ticks
    scheduled,                  \* history: the sources started on the output clock, in order
    payloadsQueued,             \* number of payloads accepted by queueAudio so far
    \* ---- useGemini / useAudio, mute and voice activity
    isMuted,                    \* useState(false), set by the mute toggle
    sessionMuted,               \* slot -> the isMuted the connect() call of the session closed over
    pendingMuted,               \* isMuted -> startRecording calls in flight that were given it
    workletMuted,               \* the isMuted the installed callback was given
    vadActiveRef,
    isUserSpeaking,             \* useState(false), set by onVADStateChange
    inputLevel,                 \* useState(0), set by onInputVolume
    lowFrames,                  \* history: frames not above the threshold since the last one above it
    frameSent,                  \* history: the latest frame was handed to sendCallback
    \* ---- useScreen
    isScreenSharing,
    displayPending,             \* TRUE while startScreenSharing awaits getDisplayMedia
    \* ---- the recorder worklet; a sample is the number it has in the input stream
    wBuffer,                    \* this.buffer[0 .. this.index - 1]
    wPosted,                    \* the frames posted by the latest process()
    wFrames,                    \* history: frames posted so far
    wFed,                       \* history: samples passed to process() so far
    shareSurvivedStop,          \* history: the latest startScreenSharing call predates a stopScreenSharing
    previousFrameDataRef,       \* the content of the last frame sent, or NoFrame
    lastFrameTimeRef,
    videoSize,                  \* videoWidth, videoHeight
    canvasSize,                 \* canvas.width, canvas.height
    lastSample,                 \* history: the source size at the latest tick and what the tick decided
    \* ---- handleReconnect, the delay of the retry
    attempt,                    \* reconnectCountRef.current when the delay is computed
    jitter,                     \* Math.random() * 500, in units of 1 / Scale ms
    delay                       \* the delay given to setTimeout, same units

ctlVars == <<status, sessionRef, reconnectCountRef, isExplicitlyTerminatedRef,
             isReconnectingRef, stableConnectionTimerRef, reconnectTimers,
             sessions, messages, timerSurvivedDisconnect>>
turnVars == <<turnOpen, turnText, inputHeard>>
dialogVars == <<streamingMsgIdRef, currentOutputTextRef, currentInputTextRef,
                isThinking, sentToolResponses, dateNow, turnVars>>
mixVars == <<externalSourceRef, externalConnected>>
captureVars == <<audioContexts, workletNodeRef, installedCallbacks, recordingPending,
                 mixVars>>
vadVars == <<vadActiveRef, isUserSpeaking, inputLevel, lowFrames, frameSent>>
samplerVars == <<lastFrameTimeRef, videoSize, canvasSize, lastSample>>
backoffVars == <<attempt, jitter, delay>>
\* What only the capture callback, the sampler tick, the mute toggle and the
\* delay computation write.
workletVars == <<wBuffer, wPosted, wFrames, wFed>>
mediaVars == <<isMuted, workletMuted, vadVars, samplerVars, backoffVars,
               displayPending, workletVars>>
playVars == <<audioProcessingChain, staleChains, sourcesRef, sourceState,
              nextStartTimeRef, currentTime, scheduled, payloadsQueued, isSpeaking>>
screenVars == <<isScreenSharing, previousFrameDataRef, shareSurvivedStop>>
vars == <<ctlVars, dialogVars, captureVars, playVars, screenVars, sessionMuted,
          pendingMuted, mediaVars>>

UnstableMsg == Transcription(Id("sys", dateNow), "system", <<"unstable">>)
MicErrorMsg == Transcription(Id("err", dateNow), "system", <<"micError">>)

\* ------------------------------------------------------------------ useAudio

\* What stopAudio writes.
stopAudioVars == <<sourcesRef, sourceState, staleChains, audioProcessingChain,
                   nextStartTimeRef, scheduled, workletNodeRef,
                   installedCallbacks, mixVars>>
\* The playback variables stopAudio does not write.
playKeptVars == <<currentTime, payloadsQueued, isSpeaking>>

\* The history after a stopAudio: the latest source is marked as followed by a
\* flush.
CutScheduled ==
    IF scheduled = <<>>
    THEN scheduled
    ELSE [scheduled EXCEPT ![Len(scheduled)].cut = TRUE]

\* stopAudio leaving the active set as it is.
StopAudioThenKeepsSources(enqueued) ==
    /\ sourceState' = [p \in Payloads |->
                          IF p \in sourcesRef THEN "stopped" ELSE sourceState[p]]
    /\ sourcesRef' = sourcesRef
    /\ staleChains' = IF audioProcessingChain = <<>>
                      THEN staleChains
                      ELSE staleChains \cup {audioProcessingChain}
    /\ audioProcessingChain' = enqueued
    /\ nextStartTimeRef' = 0
    /\ scheduled' = CutScheduled
    /\ workletNodeRef' = FALSE
    /\ installedCallbacks' = installedCallbacks - (IF workletNodeRef THEN 1 ELSE 0)
    /\ externalConnected' = externalConnected \ {externalSourceRef}
    /\ externalSourceRef' = NoSource

\* stopAudio, followed in the same handler by the queueAudio calls that leave
\* `enqueued` in the fresh chain. Every source of the active set is stopped and
\* the set cleared; the chain is replaced (its jobs are not cancelled); the next
\* free time is reset; the worklet callback is detached and the node dropped.
StopAudioThen(enqueued) ==
    /\ sourceState' = [p \in Payloads |->
                          IF p \in sourcesRef THEN "stopped" ELSE sourceState[p]]
    /\ sourcesRef' = {}
    /\ staleChains' = IF audioProcessingChain = <<>>
                      THEN staleChains
                      ELSE staleChains \cup {audioProcessingChain}
    /\ audioProcessingChain' = enqueued
    /\ nextStartTimeRef' = 0
    /\ scheduled' = CutScheduled
    /\ workletNodeRef' = FALSE
    /\ installedCallbacks' = installedCallbacks - (IF workletNodeRef THEN 1 ELSE 0)
    /\ externalConnected' = externalConnected \ {externalSourceRef}
    /\ externalSourceRef' = NoSource

StopAudio == StopAudioThen(<<>>)

\* queueAudio always starting at now + the guard, whatever is queued.
StartTimeIgnoresQueue(next, now) == now + SCHEDULE_GUARD

\* queueAudio: the start time of the decoded buffer.
StartTime(next, now) == IF next < now THEN now + SCHEDULE_GUARD ELSE next

\* The chains that have a job awaiting its decode.
RunningChains ==
    (IF audioProcessingChain = <<>> THEN {} ELSE {audioProcessingChain}) \cup staleChains

\* The history record of the source of payload p.
Scheduled(p) == CHOOSE r \in {scheduled[i] : i \in DOMAIN scheduled} : r.id = p

\* The decode job without its `.catch`: a failed decode rejects the chain and
\* every job enqueued after it is skipped.
DecodeDoneRejects(c, ok, d) ==
    /\ c \in RunningChains
    /\ LET rest == IF ok THEN Tail(c) ELSE <<>> IN
       IF c = audioProcessingChain
       THEN /\ audioProcessingChain' = rest
            /\ UNCHANGED staleChains
       ELSE /\ staleChains' = (staleChains \ {c})
                                \cup (IF rest = <<>> THEN {} ELSE {rest})
            /\ UNCHANGED audioProcessingChain
    /\ IF ok
       THEN LET start == StartTime(nextStartTimeRef, currentTime) IN
            /\ nextStartTimeRef' = start + d
            /\ sourcesRef' = sourcesRef \cup {Head(c)}
            /\ sourceState' = [sourceState EXCEPT ![Head(c)] = "playing"]
            /\ scheduled' = Append(scheduled, [id |-> Head(c), now |-> currentTime,
                                               start |-> start, duration |-> d,
                                               cut |-> FALSE])
            /\ isSpeaking' = TRUE
       ELSE /\ d = 1
            /\ UNCHANGED <<nextStartTimeRef, sourcesRef, sourceState, scheduled,
                           isSpeaking>>
    /\ UNCHANGED <<ctlVars, dialogVars, captureVars, currentTime, payloadsQueued,
                   screenVars,
                   sessionMuted, pendingMuted, mediaVars>>

\* The decode awaited by the head job of chain c settles: the buffer (of
\* duration d) is started on the output clock, or the decode failed and the
\* chunk is dropped; the next job of the chain starts.
DecodeDone(c, ok, d) ==
    /\ c \in RunningChains
    /\ IF c = audioProcessingChain
       THEN /\ audioProcessingChain' = Tail(c)
            /\ UNCHANGED staleChains
       ELSE /\ staleChains' = (staleChains \ {c})
                                \cup (IF Tail(c) = <<>> THEN {} ELSE {Tail(c)})
            /\ UNCHANGED audioProcessingChain
    /\ IF ok
       THEN LET start == StartTime(nextStartTimeRef, currentTime) IN
            /\ nextStartTimeRef' = start + d
            /\ sourcesRef' = sourcesRef \cup {Head(c)}
            /\ sourceState' = [sourceState EXCEPT ![Head(c)] = "playing"]
            /\ scheduled' = Append(scheduled, [id |-> Head(c), now |-> currentTime,
                                               start |-> start, duration |-> d,
                                               cut |-> FALSE])
            /\ isSpeaking' = TRUE
       ELSE /\ d = 1
            /\ UNCHANGED <<nextStartTimeRef, sourcesRef, sourceState, scheduled,
                           isSpeaking>>
    /\ UNCHANGED <<ctlVars, dialogVars, captureVars, currentTime, payloadsQueued,
                   screenVars,
                   sessionMuted, pendingMuted, mediaVars>>

\* onended calling onStopSpeaking without testing the size of the active set.
SourceEndedAlwaysStops(p) ==
    /\ \/ sourceState[p] = "stopped"
       \/ /\ sourceState[p] = "playing"
          /\ currentTime >= Scheduled(p).start + Scheduled(p).duration
    /\ sourceState' = [sourceState EXCEPT ![p] = "ended"]
    /\ sourcesRef' = sourcesRef \ {p}
    /\ isSpeaking' = FALSE
    /\ UNCHANGED <<ctlVars, dialogVars, captureVars, audioProcessingChain,
                   staleChains, nextStartTimeRef, currentTime, scheduled,
                   payloadsQueued, screenVars,
                   sessionMuted, pendingMuted, mediaVars>>

\* onended of the source of payload p: it played to its end, or it was stopped.
SourceEnded(p) ==
    /\ \/ sourceState[p] = "stopped"
       \/ /\ sourceState[p] = "playing"
          /\ currentTime >= Scheduled(p).start + Scheduled(p).duration
    /\ sourceState' = [sourceState EXCEPT ![p] = "ended"]
    /\ sourcesRef' = sourcesRef \ {p}
    /\ isSpeaking' = IF sourcesRef \ {p} = {} THEN FALSE ELSE isSpeaking
    /\ UNCHANGED <<ctlVars, dialogVars, captureVars, audioProcessingChain,
                   staleChains, nextStartTimeRef, currentTime, scheduled,
                   payloadsQueued, screenVars,
                   sessionMuted, pendingMuted, mediaVars>>

\* The output clock advances.
Tick ==
    /\ currentTime < MaxTime
    /\ currentTime' = currentTime + 1
    /\ UNCHANGED <<ctlVars, dialogVars, captureVars, audioProcessingChain,
                   staleChains, sourcesRef, sourceState, nextStartTimeRef,
                   scheduled, payloadsQueued, isSpeaking, screenVars,
                   sessionMuted, pendingMuted, mediaVars>>

\* ----------------------------------------------------------------- useScreen

\* stopScreenSharing flipping the flag instead of clearing it.
StopScreenSharingOpToggles ==
    /\ isScreenSharing' = ~isScreenSharing
    /\ previousFrameDataRef' = NoFrame
    /\ shareSurvivedStop' = displayPending

StopScreenSharingOp ==
    /\ isScreenSharing' = FALSE
    /\ previousFrameDataRef' = NoFrame
    /\ shareSurvivedStop' = displayPending

\* ----------------------------------------------------------------- useGemini

\* What handleReconnect may write.
hrVars == <<status, reconnectCountRef, isReconnectingRef, reconnectTimers,
            messages, stopAudioVars>>

\* handleReconnect without the `return` of its cap branch.
HandleReconnectFallsThrough(force) ==
    IF isExplicitlyTerminatedRef /\ ~force
    THEN UNCHANGED hrVars
    ELSE IF isReconnectingRef
    THEN UNCHANGED hrVars
    ELSE /\ StopAudio
         /\ IF reconnectCountRef > MAX_ATTEMPTS
            THEN /\ Len(messages) < MaxMessages
                 /\ messages' = Append(messages, UnstableMsg)
            ELSE UNCHANGED messages
         /\ isReconnectingRef' = TRUE
         /\ reconnectCountRef' = reconnectCountRef + 1
         /\ status' = CONNECTING
         /\ reconnectTimers' = reconnectTimers + 1

\* handleReconnect without the `if (isReconnectingRef.current) return`.
HandleReconnectNoPendingCheck(force) ==
    IF isExplicitlyTerminatedRef /\ ~force
    THEN UNCHANGED hrVars
    ELSE /\ StopAudio
         /\ IF reconnectCountRef > MAX_ATTEMPTS
            THEN /\ status' = ERROR
                 /\ Len(messages) < MaxMessages
                 /\ messages' = Append(messages, UnstableMsg)
                 /\ UNCHANGED <<reconnectCountRef, isReconnectingRef, reconnectTimers>>
            ELSE /\ isReconnectingRef' = TRUE
                 /\ reconnectCountRef' = reconnectCountRef + 1
                 /\ status' = CONNECTING
                 /\ reconnectTimers' = reconnectTimers + 1
                 /\ UNCHANGED messages

HandleReconnect(force) ==
    IF isExplicitlyTerminatedRef /\ ~force
    THEN UNCHANGED hrVars
    ELSE IF isReconnectingRef
    THEN UNCHANGED hrVars
    ELSE /\ StopAudio
         /\ IF reconnectCountRef > MAX_ATTEMPTS
            THEN /\ status' = ERROR
                 /\ Len(messages) < MaxMessages
                 /\ messages' = Append(messages, UnstableMsg)
                 /\ UNCHANGED <<reconnectCountRef, isReconnectingRef, reconnectTimers>>
            ELSE /\ isReconnectingRef' = TRUE
                 /\ reconnectCountRef' = reconnectCountRef + 1
                 /\ status' = CONNECTING
                 /\ reconnectTimers' = reconnectTimers + 1
                 /\ UNCHANGED messages

\* A dead session object that nothing refers to is garbage: its slot is empty.
Norm(ss, ref) ==
    [s \in Sessions |-> IF ss[s] = "dead" /\ s # ref THEN "none" ELSE ss[s]]

\* A slot whose session object is gone and that nothing refers to.
FreeSlots == {s \in Sessions : sessions[s] \in {"none", "dead"} /\ sessionRef # s}
NewSlot == CHOOSE s \in FreeSlots : \A t \in FreeSlots : s <= t

\* connect resetting the flag and the counter whatever isReconnect is.
ConnectAlwaysResets(isReconnect) ==
    /\ isExplicitlyTerminatedRef' = FALSE
    /\ reconnectCountRef' = 0
    /\ FreeSlots # {}
    /\ status' = CONNECTING
    /\ sessions' = [sessions EXCEPT ![NewSlot] = "connecting"]
    /\ sessionMuted' = [sessionMuted EXCEPT
                            ![NewSlot] = IF isReconnect THEN FALSE ELSE isMuted]

\* What connect writes before it awaits.
connectVars == <<isExplicitlyTerminatedRef, reconnectCountRef, status, sessions,
                 sessionMuted>>

\* connect(systemInstruction, isReconnect). The callbacks of the session close
\* over the isMuted of the render that made this connect: the current one for
\* the connect() of the user interface; the first render's (false) for the
\* connect the memoised handleReconnect refers to.
Connect(isReconnect) ==
    LET terminated == IF isReconnect THEN isExplicitlyTerminatedRef ELSE FALSE IN
    /\ isExplicitlyTerminatedRef' = terminated
    /\ reconnectCountRef' = IF isReconnect THEN reconnectCountRef ELSE 0
    /\ IF terminated
       THEN UNCHANGED <<status, sessions, sessionMuted>>
       ELSE /\ FreeSlots # {}
            /\ status' = CONNECTING
            /\ sessions' = [sessions EXCEPT ![NewSlot] = "connecting"]
            /\ sessionMuted' = [sessionMuted EXCEPT
                                    ![NewSlot] = IF isReconnect THEN FALSE ELSE isMuted]

\* session.close() on the stored handle; closing a closed session is tolerated.
CloseSession(ss, ref) ==
    IF ref # NoSession /\ ss[ref] = "open"
    THEN [ss EXCEPT ![ref] = "closing"]
    ELSE ss

\* The socket reports a failure as an error event followed at once by its close
\* event: while a session is between the two, nothing else runs.
Quiescent == \A s \in Sessions : sessions[s] # "errored"

\* The user presses the connection button while the system is off.
UserConnect ==
    /\ Quiescent
    /\ status \in {DISCONNECTED, ERROR}
    /\ Connect(FALSE)
    /\ UNCHANGED <<sessionRef, isReconnectingRef, stableConnectionTimerRef,
                   reconnectTimers, messages, timerSurvivedDisconnect,
                   dialogVars, captureVars, playVars, screenVars,
                   pendingMuted, mediaVars>>

\* The timer set by handleReconnect fires.
ReconnectTimerFire ==
    /\ Quiescent
    /\ reconnectTimers > 0
    /\ reconnectTimers' = reconnectTimers - 1
    /\ timerSurvivedDisconnect' = FALSE
    /\ isReconnectingRef' = FALSE
    /\ IF ~isExplicitlyTerminatedRef
       THEN Connect(TRUE)
       ELSE UNCHANGED connectVars
    /\ UNCHANGED <<sessionRef, stableConnectionTimerRef, messages,
                   dialogVars, captureVars, playVars, screenVars,
                   pendingMuted, mediaVars>>

\* The stability timer set by onOpen fires.
StableTimerFire ==
    /\ Quiescent
    /\ stableConnectionTimerRef
    /\ stableConnectionTimerRef' = FALSE
    /\ reconnectCountRef' = 0
    /\ UNCHANGED <<status, sessionRef, isExplicitlyTerminatedRef, isReconnectingRef,
                   reconnectTimers, sessions, messages, timerSurvivedDisconnect,
                   dialogVars, captureVars, playVars, screenVars,
                   sessionMuted, pendingMuted, mediaVars>>

\* onopen of session s, then the connect promise resolves with s. `cap`: the
\* most startRecording calls followed while they await the device.
OnOpenAs(cap, s) ==
    /\ Quiescent
    /\ sessions[s] = "connecting"
    /\ IF isExplicitlyTerminatedRef
       THEN /\ sessions' = Norm([CloseSession(sessions, sessionRef) EXCEPT ![s] = "open"], s)
            /\ UNCHANGED <<status, stableConnectionTimerRef, audioContexts,
                           recordingPending, pendingMuted>>
       ELSE /\ status' = CONNECTED
            /\ stableConnectionTimerRef' = TRUE
            /\ audioContexts' = TRUE
            /\ recordingPending < cap
            /\ recordingPending' = recordingPending + 1
            /\ pendingMuted' = [pendingMuted EXCEPT
                                    ![sessionMuted[s]] = pendingMuted[sessionMuted[s]] + 1]
            /\ sessions' = Norm([sessions EXCEPT ![s] = "open"], s)
    /\ sessionRef' = s
    /\ UNCHANGED <<reconnectCountRef, isExplicitlyTerminatedRef, isReconnectingRef,
                   reconnectTimers, messages, timerSurvivedDisconnect,
                   dialogVars, workletNodeRef, installedCallbacks, mixVars, playVars,
                   screenVars,
                   sessionMuted, mediaVars>>

OnOpen(s) == OnOpenAs(MaxRecording, s)

\* startRecording without its clean-up of the worklet node already installed.
StartRecordingDoneKeepsOld(granted) ==
    /\ Quiescent
    /\ recordingPending > 0
    /\ recordingPending' = recordingPending - 1
    /\ \E m \in BOOLEAN :
          /\ pendingMuted[m] > 0
          /\ pendingMuted' = [pendingMuted EXCEPT ![m] = pendingMuted[m] - 1]
          /\ IF granted
             THEN /\ workletNodeRef' = TRUE
                  /\ installedCallbacks' = installedCallbacks + 1
                  /\ workletMuted' = m
                  /\ externalConnected' = {}
                  /\ UNCHANGED <<messages, externalSourceRef>>
             ELSE /\ Len(messages) < MaxMessages
                  /\ messages' = Append(messages, MicErrorMsg)
                  /\ UNCHANGED <<workletNodeRef, installedCallbacks, workletMuted,
                                 mixVars>>
    /\ UNCHANGED <<status, sessionRef, reconnectCountRef, isExplicitlyTerminatedRef,
                   isReconnectingRef, stableConnectionTimerRef, reconnectTimers,
                   sessions, timerSurvivedDisconnect, dialogVars, audioContexts,
                   playVars, screenVars, sessionMuted, isMuted, vadVars,
                   samplerVars, backoffVars,
                   displayPending, workletVars>>

\* startRecording gets past its awaits: a new worklet node is installed (no
\* external source is connected to it), or the device is refused and onOpen
\* reports it.
StartRecordingDone(granted) ==
    /\ Quiescent
    /\ recordingPending > 0
    /\ recordingPending' = recordingPending - 1
    /\ \E m \in BOOLEAN :
          /\ pendingMuted[m] > 0
          /\ pendingMuted' = [pendingMuted EXCEPT ![m] = pendingMuted[m] - 1]
          /\ IF granted
             THEN /\ workletNodeRef' = TRUE
                  /\ installedCallbacks' =
                         installedCallbacks - (IF workletNodeRef THEN 1 ELSE 0) + 1
                  /\ workletMuted' = m
                  /\ externalConnected' = {}
                  /\ UNCHANGED <<messages, externalSourceRef>>
             ELSE /\ Len(messages) < MaxMessages
                  /\ messages' = Append(messages, MicErrorMsg)
                  /\ UNCHANGED <<workletNodeRef, installedCallbacks, workletMuted,
                                 mixVars>>
    /\ UNCHANGED <<status, sessionRef, reconnectCountRef, isExplicitlyTerminatedRef,
                   isReconnectingRef, stableConnectionTimerRef, reconnectTimers,
                   sessions, timerSurvivedDisconnect, dialogVars, audioContexts,
                   playVars, screenVars, sessionMuted, isMuted, vadVars,
                   samplerVars, backoffVars,
                   displayPending, workletVars>>

\* onerror of session s.
OnError(s) ==
    /\ Quiescent
    /\ sessions[s] \in {"connecting", "open"}
    /\ sessions' = [sessions EXCEPT ![s] = "errored"]
    /\ IF ~isExplicitlyTerminatedRef
       THEN HandleReconnect(FALSE)
       ELSE UNCHANGED hrVars
    /\ UNCHANGED <<sessionRef, isExplicitlyTerminatedRef, stableConnectionTimerRef,
                   timerSurvivedDisconnect, dialogVars, audioContexts,
                   recordingPending, playKeptVars, screenVars,
                   sessionMuted, pendingMuted, mediaVars>>

\* onclose of session s.
OnClose(s) ==
    /\ sessions[s] \in {"connecting", "open", "errored", "closing"}
    /\ Quiescent \/ sessions[s] = "errored"
    /\ sessions' = Norm([sessions EXCEPT ![s] = "dead"], sessionRef)
    /\ IF ~isExplicitlyTerminatedRef
       THEN HandleReconnect(FALSE)
       ELSE UNCHANGED hrVars
    /\ UNCHANGED <<sessionRef, isExplicitlyTerminatedRef, stableConnectionTimerRef,
                   timerSurvivedDisconnect, dialogVars, audioContexts,
                   recordingPending, playKeptVars, screenVars,
                   sessionMuted, pendingMuted, mediaVars>>

\* ai.live.connect rejects: the catch block of connect.
ConnectFail(s) ==
    /\ Quiescent
    /\ sessions[s] = "connecting"
    /\ sessions' = Norm([sessions EXCEPT ![s] = "dead"], sessionRef)
    /\ HandleReconnect(FALSE)
    /\ UNCHANGED <<sessionRef, isExplicitlyTerminatedRef, stableConnectionTimerRef,
                   timerSurvivedDisconnect, dialogVars, audioContexts,
                   recordingPending, playKeptVars, screenVars,
                   sessionMuted, pendingMuted, mediaVars>>

\* sendRealtimeInput(data), called by the capture callback, the screen sampler,
\* sendText or sendFile. The send throws only on a session that is not open, and
\* may also be dropped silently there.
\* sendRealtimeInput without `!isExplicitlyTerminatedRef.current` in its guard.
SendRealtimeInputOpIgnoresFlag(throws) ==
    IF sessionRef # NoSession
    THEN IF sessions[sessionRef] # "open" /\ throws
         THEN HandleReconnect(TRUE)
         ELSE UNCHANGED hrVars
    ELSE /\ ~throws
         /\ UNCHANGED hrVars

SendRealtimeInputOp(throws) ==
    IF sessionRef # NoSession /\ ~isExplicitlyTerminatedRef
    THEN IF sessions[sessionRef] # "open" /\ throws
         THEN HandleReconnect(TRUE)
         ELSE UNCHANGED hrVars
    ELSE /\ ~throws
         /\ UNCHANGED hrVars

\* A call of sendRealtimeInput by sendText, sendFile or any producer.
SendRealtimeInput(throws) ==
    /\ Quiescent
    /\ SendRealtimeInputOp(throws)
    /\ UNCHANGED <<sessionRef, isExplicitlyTerminatedRef, stableConnectionTimerRef,
                   sessions, timerSurvivedDisconnect, dialogVars, audioContexts,
                   recordingPending, playKeptVars, screenVars,
                   sessionMuted, pendingMuted, mediaVars>>

\* ------------------------------------------------- useScreen, the sampler

\* The size the tick draws the frame at: the source's own size, or, when a side
\* exceeds VISUAL_MAX_DIMENSION, the long side set to the bound and the other
\* one divided by the aspect ratio. `targetH = targetW / ratio` is a
\* floating-point number: `whole` tells whether it is an integer, w and h are
\* its integer part (what a canvas dimension keeps of it).
TargetSize(size) ==
    LET vw == size[1]
        vh == size[2]
    IN  IF vw > VISUAL_MAX_DIMENSION \/ vh > VISUAL_MAX_DIMENSION
        THEN IF vw > vh
             THEN [w |-> VISUAL_MAX_DIMENSION,
                   h |-> (VISUAL_MAX_DIMENSION * vh) \div vw,
                   whole |-> (VISUAL_MAX_DIMENSION * vh) % vw = 0]
             ELSE [w |-> (VISUAL_MAX_DIMENSION * vw) \div vh,
                   h |-> VISUAL_MAX_DIMENSION,
                   whole |-> (VISUAL_MAX_DIMENSION * vw) % vh = 0]
        ELSE [w |-> vw, h |-> vh, whole |-> TRUE]

\* The change detection without its heartbeat branch.
HasChangeNoHeartbeat(previous, now, frame, detected) ==
    IF previous = NoFrame THEN "first"
    ELSE IF frame # previous /\ detected THEN "diff"
    ELSE "none"

\* The change detection of a tick: why the frame is sent, or "none". Identical
\* contents have a pixel difference of zero; different contents exceed the 1 %
\* ratio or not (detected).
HasChange(previous, now, frame, detected) ==
    IF previous = NoFrame THEN "first"
    ELSE IF now - lastFrameTimeRef > HEARTBEAT_MS THEN "heartbeat"
    ELSE IF frame # previous /\ detected THEN "diff"
    ELSE "none"

\* One tick of the interval while sharing, TICK_MS after the previous one, the
\* video being ready: the screen shows `frame`.
SamplerTick(frame, detected, throws) ==
    /\ Quiescent
    /\ isScreenSharing
    /\ dateNow < MaxTicks * TICK_MS
    /\ dateNow' = dateNow + TICK_MS
    /\ LET t == TargetSize(videoSize)
           resized == canvasSize # <<t.w, t.h>> \/ ~t.whole
           previous == IF resized THEN NoFrame ELSE previousFrameDataRef
           why == HasChange(previous, dateNow', frame, detected)
       IN  /\ canvasSize' = <<t.w, t.h>>
           /\ lastSample' = [size |-> videoSize, same |-> frame = previous,
                             sent |-> why # "none", why |-> why]
           /\ IF why # "none"
              THEN /\ SendRealtimeInputOp(throws)
                   /\ previousFrameDataRef' = frame
                   /\ lastFrameTimeRef' = dateNow'
              ELSE /\ ~throws
                   /\ previousFrameDataRef' = previous
                   /\ UNCHANGED <<hrVars, lastFrameTimeRef>>
    /\ UNCHANGED <<sessionRef, isExplicitlyTerminatedRef, stableConnectionTimerRef,
                   sessions, timerSurvivedDisconnect, streamingMsgIdRef,
                   currentOutputTextRef, currentInputTextRef, isThinking,
                   sentToolResponses, turnVars, audioContexts, recordingPending,
                   playKeptVars, isScreenSharing, shareSurvivedStop, sessionMuted,
                   pendingMuted,
                   isMuted, workletMuted, vadVars, videoSize, backoffVars,
                   displayPending, workletVars>>

\* One period passes while nothing is shared: no interval is installed.
SamplerIdle ==
    /\ ~isScreenSharing
    /\ dateNow < MaxTicks * TICK_MS
    /\ dateNow' = dateNow + TICK_MS
    /\ UNCHANGED <<ctlVars, streamingMsgIdRef, currentOutputTextRef,
                   currentInputTextRef, isThinking, sentToolResponses, turnVars,
                   captureVars, playVars, screenVars, sessionMuted, pendingMuted,
                   mediaVars>>

\* The shared surface changes its size (a window is resized), or another
\* surface is chosen for the next share.
SourceResize(size) ==
    /\ size # videoSize
    /\ videoSize' = size
    /\ UNCHANGED <<ctlVars, dialogVars, captureVars, playVars, screenVars,
                   sessionMuted, pendingMuted, isMuted, workletMuted, vadVars,
                   lastFrameTimeRef, canvasSize, lastSample, backoffVars,
                   displayPending, workletVars>>

\* ------------------------------------ useScreen, the pixels of a frame

\* currentData[i] of the screen content f: the first f sampled entries hold
\* 10 * f, the other sampled entries 0; the entries between two sampled ones
\* hold 200 in the contents of odd number and 0 in the others.
Pixel(f, i) ==
    IF i % SAMPLE_STEP = 0
    THEN IF i \div SAMPLE_STEP < f THEN 10 * f ELSE 0
    ELSE 200 * (f % 2)

Abs(x) == IF x < 0 THEN 0 - x ELSE x

\* The passes lo..hi of the loop `for (let i = 0; i < totalPixels; i +=
\* sampleStep)`, pass k reading entry k * sampleStep: how many of them find an
\* entry that differs from the baseline by more than the threshold. The
\* passes are summed by halves.
RECURSIVE DiffCount(_, _, _, _)
DiffCount(cur, prev, lo, hi) ==
    IF lo > hi
    THEN 0
    ELSE IF lo = hi
    THEN IF Abs(Pixel(cur, lo * SAMPLE_STEP) - Pixel(prev, lo * SAMPLE_STEP))
               > DIFF_THRESHOLD
         THEN 1 ELSE 0
    ELSE LET mid == (lo + hi) \div 2
         IN  DiffCount(cur, prev, lo, mid) + DiffCount(cur, prev, mid + 1, hi)

\* The last pass of the loop: the largest k with k * sampleStep < totalPixels.
LastPass == (BufLen - 1) \div SAMPLE_STEP

\* The ratio test with `>=` in place of `>`.
ChangedAtLeast(cur, prev) ==
    /\ prev # NoFrame
    /\ DiffCount(cur, prev, 0, LastPass) * SAMPLE_STEP * 100 >= CHANGE_PER_CENT * BufLen

\* `diffCount > (totalPixels / sampleStep) * 0.01` against the baseline prev.
Changed(cur, prev) ==
    /\ prev # NoFrame
    /\ DiffCount(cur, prev, 0, LastPass) * SAMPLE_STEP * 100 > CHANGE_PER_CENT * BufLen

\* One tick that samples the content f and compares its pixels.
PixelTick(f) == SamplerTick(f, Changed(f, previousFrameDataRef), FALSE)

\* ------------------------------------------------- the recorder worklet

\* The body of the loop of process() with `>` in place of `>=`.
StoreSamplePostsLate(st, x) ==
    LET filled == Append(st.buffer, x)
    IN  IF Len(filled) > BUFFER_SIZE
        THEN [buffer |-> <<>>, posted |-> Append(st.posted, filled)]
        ELSE [buffer |-> filled, posted |-> st.posted]

\* The body of the loop of process(): `this.buffer[this.index++] = x`, and
\* with the index at bufferSize the buffer is posted (a copy of it) and the
\* index set to 0. The entries at and above the index are never posted, and
\* are left out.
StoreSample(st, x) ==
    LET filled == Append(st.buffer, x)
    IN  IF Len(filled) >= BUFFER_SIZE
        THEN [buffer |-> <<>>, posted |-> Append(st.posted, filled)]
        ELSE [buffer |-> filled, posted |-> st.posted]

\* The passes lo..hi of `for (let i = 0; i < channelData.length; i++)`, in
\* order, the first half before the second (the state after the first half
\* is worked out before the second half starts); channelData[i] is the
\* sample numbered first + i.
RECURSIVE StoreBlock(_, _, _, _)
StoreBlock(st, first, lo, hi) ==
    IF lo > hi
    THEN st
    ELSE IF lo = hi
    THEN StoreSample(st, first + lo)
    ELSE LET mid == (lo + hi) \div 2
             half == StoreBlock(st, first, lo, mid)
         IN  IF Len(half.buffer) < 0 THEN half
             ELSE StoreBlock(half, first, mid + 1, hi)

\* The lengths of channelData: none, one render quantum, other sizes below,
\* at and above bufferSize, and more than two buffers.
BlockLens == {0, 128, BUFFER_SIZE - 1, BUFFER_SIZE, BUFFER_SIZE + 1,
              2 * BUFFER_SIZE + 1}

\* process(inputs) with a first channel of n samples.
Process(n) ==
    /\ wFed + n <= MaxFed
    /\ LET st == StoreBlock([buffer |-> wBuffer, posted |-> <<>>],
                            wFed + 1, 0, n - 1)
       IN  /\ wBuffer' = st.buffer
           /\ wPosted' = st.posted
           /\ wFrames' = wFrames + Len(st.posted)
    /\ wFed' = wFed + n
    /\ UNCHANGED <<ctlVars, dialogVars, captureVars, playVars, screenVars,
                   sessionMuted, pendingMuted, isMuted, workletMuted, vadVars,
                   samplerVars, backoffVars, displayPending>>

\* ------------------------------------- handleReconnect, the delay of the retry

\* Delays are kept in units of 1 / Scale ms, so that 1.5^n is exact for every
\* n up to MaxAttempt.
RECURSIVE Pow(_, _)
Pow(b, n) == IF n = 0 THEN 1 ELSE b * Pow(b, n - 1)
Scale == Pow(2, MaxAttempt)
Min(a, b) == IF a <= b THEN a ELSE b

\* Values of `Math.random() * 500`: evenly spaced ones, the smallest positive
\* one and the largest below 500.
JitterSamples ==
    {k * ((JITTER_MS * Scale) \div JitterSteps) : k \in 0..(JitterSteps - 1)}
        \cup {1, JITTER_MS * Scale - 1}

\* The delay without `Math.min(..., CONFIG.MAX_BACKOFF_MS)`.
DelayUncapped(n, j) ==
    BASE_DELAY_MS * Pow(3, n) * Pow(2, MaxAttempt - n) + j

\* baseDelay = 1000 * 1.5 ** n; delay = Math.min(baseDelay + jitter, MAX_BACKOFF_MS).
Delay(n, j) ==
    LET baseDelay == BASE_DELAY_MS * Pow(3, n) * Pow(2, MaxAttempt - n)
    IN  Min(baseDelay + j, MAX_BACKOFF_MS * Scale)

\* handleReconnect computes the delay of the next retry: the counter is 0 on
\* the first try and one more on each try after it.
ComputeDelay(j) ==
    /\ LET n == IF delay = NoDelay THEN 0 ELSE attempt + 1
       IN  /\ n <= MaxAttempt
           /\ attempt' = n
           /\ jitter' = j
           /\ delay' = Delay(n, j)
    /\ UNCHANGED <<ctlVars, dialogVars, captureVars, playVars, screenVars,
                   sessionMuted, pendingMuted, isMuted, workletMuted, vadVars,
                   samplerVars,
                   displayPending, workletVars>>

\* The connection was stable: `reconnectCountRef.current = 0`.
ResetDelay ==
    /\ delay # NoDelay
    /\ attempt' = 0
    /\ jitter' = 0
    /\ delay' = NoDelay
    /\ UNCHANGED <<ctlVars, dialogVars, captureVars, playVars, screenVars,
                   sessionMuted, pendingMuted, isMuted, workletMuted, vadVars,
                   samplerVars,
                   displayPending, workletVars>>

\* --------------------------------------------- the stop operations on their own

\* stopAudio() called on its own, in any state.
StopAudioCall ==
    /\ Quiescent
    /\ StopAudio
    /\ UNCHANGED <<ctlVars, dialogVars, audioContexts, recordingPending,
                   playKeptVars, screenVars, sessionMuted, pendingMuted, mediaVars>>

\* stopScreenSharing() called in any state, sharing or not.
StopScreenSharingCall ==
    /\ Quiescent
    /\ StopScreenSharingOp
    /\ UNCHANGED <<ctlVars, dialogVars, captureVars, playVars, sessionMuted,
                   pendingMuted, mediaVars>>

\* The state stopAudio() leaves.
StopAudioPost ==
    /\ sourcesRef = {}
    /\ audioProcessingChain = <<>>
    /\ nextStartTimeRef = 0
    /\ ~workletNodeRef

\* The state stopScreenSharing() leaves.
StopScreenSharingPost ==
    /\ ~isScreenSharing
    /\ previousFrameDataRef = NoFrame

\* The state disconnect() leaves.
DisconnectPost ==
    /\ isExplicitlyTerminatedRef
    /\ ~stableConnectionTimerRef
    /\ status = DISCONNECTED
    /\ sessionRef = NoSession
    /\ StopAudioPost
    /\ StopScreenSharingPost

\* ------------------------------------------------------ useAudio, the mixer

\* What mixStream is given: null, a stream without audio tracks, a stream with
\* at least one.
MixInputs == {"null", "silent", "audio"}

\* A source node that is neither kept nor connected: the node a call creates.
FreshSource ==
    CHOOSE i \in MixIds : i \notin externalConnected \cup {externalSourceRef}

\* mixStream connecting the new source without disconnecting the previous one.
MixStreamKeepsPrevious(stream, throws) ==
    /\ Quiescent
    /\ IF ~audioContexts \/ ~workletNodeRef
       THEN /\ ~throws
            /\ UNCHANGED mixVars
       ELSE IF stream = "audio" /\ ~throws
       THEN /\ externalConnected' = externalConnected \cup {FreshSource}
            /\ externalSourceRef' = FreshSource
       ELSE /\ throws => stream = "audio"
            /\ externalConnected' = externalConnected
            /\ externalSourceRef' = NoSource
    /\ UNCHANGED <<ctlVars, dialogVars, audioContexts, workletNodeRef,
                   installedCallbacks,
                   recordingPending, playVars, screenVars, sessionMuted,
                   pendingMuted, mediaVars>>

\* mixStream(externalStream). It returns at once without the input context or
\* the worklet node; otherwise the kept source is disconnected and dropped,
\* and for a stream with an audio track a new source is created, connected to
\* the worklet node and kept (throws: creating or connecting it throws, which
\* is caught).
MixStreamOp(stream, throws) ==
    IF ~audioContexts \/ ~workletNodeRef
    THEN /\ ~throws
         /\ UNCHANGED mixVars
    ELSE IF stream = "audio" /\ ~throws
    THEN /\ externalConnected' =
                (externalConnected \ {externalSourceRef}) \cup {FreshSource}
         /\ externalSourceRef' = FreshSource
    ELSE /\ throws => stream = "audio"
         /\ externalConnected' = externalConnected \ {externalSourceRef}
         /\ externalSourceRef' = NoSource

\* A call of mixStream on its own.
MixStream(stream, throws) ==
    /\ Quiescent
    /\ MixStreamOp(stream, throws)
    /\ UNCHANGED <<ctlVars, dialogVars, audioContexts, workletNodeRef,
                   installedCallbacks,
                   recordingPending, playVars, screenVars, sessionMuted,
                   pendingMuted, mediaVars>>

\* disconnect without `isExplicitlyTerminatedRef.current = true`.
DisconnectKeepsFlag ==
    /\ Quiescent
    /\ stableConnectionTimerRef' = FALSE
    /\ status' = DISCONNECTED
    /\ StopAudio
    /\ StopScreenSharingOp
    /\ sessions' = Norm(CloseSession(sessions, sessionRef), NoSession)
    /\ sessionRef' = NoSession
    /\ timerSurvivedDisconnect' = (reconnectTimers > 0)
    /\ UNCHANGED <<isExplicitlyTerminatedRef, reconnectCountRef, isReconnectingRef,
                   reconnectTimers, messages, dialogVars, audioContexts,
                   recordingPending, playKeptVars, sessionMuted, pendingMuted,
                   mediaVars>>

Disconnect ==
    /\ Quiescent
    /\ isExplicitlyTerminatedRef' = TRUE
    /\ stableConnectionTimerRef' = FALSE
    /\ status' = DISCONNECTED
    /\ StopAudio
    /\ StopScreenSharingOp
    /\ sessions' = Norm(CloseSession(sessions, sessionRef), NoSession)
    /\ sessionRef' = NoSession
    /\ timerSurvivedDisconnect' = (reconnectTimers > 0)
    /\ UNCHANGED <<reconnectCountRef, isReconnectingRef, reconnectTimers, messages,
                   dialogVars, audioContexts, recordingPending, playKeptVars,
                   sessionMuted, pendingMuted, mediaVars>>

\* ------------------------------------------------- capture callback and mute

\* The VAD branch with a low frame reporting false at once.
VadDropsOnLow(rms, counter, speaking) ==
    IF rms > VAD_THRESHOLD
    THEN [counter |-> VAD_HYSTERESIS_FRAMES, speaking |-> TRUE]
    ELSE IF counter > 0
    THEN [counter |-> counter - 1, speaking |-> FALSE]
    ELSE [counter |-> counter, speaking |-> FALSE]

\* The VAD branch arming the counter one frame short.
VadArmsShort(rms, counter, speaking) ==
    IF rms > VAD_THRESHOLD
    THEN [counter |-> VAD_HYSTERESIS_FRAMES - 1, speaking |-> TRUE]
    ELSE IF counter > 0
    THEN [counter |-> counter - 1, speaking |-> speaking]
    ELSE [counter |-> counter, speaking |-> FALSE]

\* The VAD branch of the capture callback: vadActiveRef and the state reported
\* through onVADStateChange after a frame of the given RMS (a frame that only
\* decrements the counter reports nothing).
Vad(rms, counter, speaking) ==
    IF rms > VAD_THRESHOLD
    THEN [counter |-> VAD_HYSTERESIS_FRAMES, speaking |-> TRUE]
    ELSE IF counter > 0
    THEN [counter |-> counter - 1, speaking |-> speaking]
    ELSE [counter |-> counter, speaking |-> FALSE]

\* port.onmessage of the installed worklet node: a frame of the given RMS is
\* delivered; `throws`: the send of the chunk throws.
CaptureFrame(rms, throws) ==
    /\ Quiescent
    /\ workletNodeRef
    /\ inputLevel' = rms
    /\ LET v == Vad(rms, vadActiveRef, isUserSpeaking) IN
       /\ vadActiveRef' = v.counter
       /\ isUserSpeaking' = v.speaking
    /\ lowFrames' = IF rms > VAD_THRESHOLD
                    THEN 0
                    ELSE IF lowFrames > VAD_HYSTERESIS_FRAMES
                    THEN lowFrames
                    ELSE lowFrames + 1
    /\ frameSent' = ~workletMuted
    /\ IF ~workletMuted
       THEN SendRealtimeInputOp(throws)
       ELSE /\ ~throws
            /\ UNCHANGED hrVars
    /\ UNCHANGED <<sessionRef, isExplicitlyTerminatedRef, stableConnectionTimerRef,
                   sessions, timerSurvivedDisconnect, dialogVars, audioContexts,
                   recordingPending, playKeptVars, screenVars, sessionMuted,
                   pendingMuted, isMuted, workletMuted, samplerVars, backoffVars,
                   displayPending, workletVars>>

\* The mute toggle of the user interface: setIsMuted.
ToggleMute ==
    /\ Quiescent
    /\ isMuted' = ~isMuted
    /\ UNCHANGED <<ctlVars, dialogVars, captureVars, playVars, screenVars,
                   sessionMuted, pendingMuted, workletMuted, vadVars, samplerVars,
                   backoffVars,
                   displayPending, workletVars>>

\* ------------------------------------------------------ inbound messages

\* The two declared tools and a name that is neither.
ToolNames == {"render_code", "create_file", "search"}

\* A function call of a batch; `throws` tells whether its arguments make the
\* handler of a declared tool throw (e.g. `args` missing).
FunctionCalls ==
    {c \in [id : 1..MaxCalls, name : ToolNames, throws : BOOLEAN] :
        c.name = "search" => ~c.throws}

Batches ==
    UNION {{b \in [1..k -> FunctionCalls] : \A i \in 1..k : b[i].id = i} :
              k \in 1..MaxCalls}

\* A transcript delta.
Deltas == {<<>>, <<"a">>, <<"b">>}

\* An optional field: absent, or one value.
Opt(S) == {<<>>} \cup {<<x>> : x \in S}

\* A LiveServerMessage with no field set.
NoMessage ==
    [toolCall |-> <<>>, interrupted |-> FALSE, outputTranscription |-> <<>>,
     inputTranscription |-> <<>>, turnComplete |-> FALSE, audio |-> FALSE]

ToolMsgs == {[NoMessage EXCEPT !.toolCall = b] : b \in Batches}

ContentMsgs ==
    {[NoMessage EXCEPT !.interrupted = i, !.outputTranscription = o,
                       !.inputTranscription = n, !.turnComplete = t] :
        i \in BOOLEAN, o \in Opt(Deltas), n \in Opt(Deltas), t \in BOOLEAN}
      \ {NoMessage}

AudioMsgs ==
    {[NoMessage EXCEPT !.interrupted = i, !.audio = a] : i \in BOOLEAN, a \in BOOLEAN}
      \ {NoMessage}

\* The loop over msg.toolCall.functionCalls; st carries the message list, the
\* open-output-turn marker, the output buffer and the responses pushed so far.
RECURSIVE HandleCalls(_, _)
HandleCalls(calls, st) ==
    IF Len(calls) = 0
    THEN st
    ELSE LET fc == Head(calls)
             pushed(kind) == Append(st.responses,
                                    [id |-> fc.id, name |-> fc.name, kind |-> kind])
             after ==
                 IF fc.name \notin {"render_code", "create_file"}
                 THEN st
                 ELSE IF fc.throws
                 THEN [st EXCEPT !.responses = pushed("error")]
                 ELSE IF fc.name = "render_code"
                 THEN [msgs |-> Append(st.msgs, Transcription(Id("code", dateNow),
                                                              "assistant", <<"code">>)),
                       sid |-> NoId,
                       out |-> <<>>,
                       responses |-> pushed("result")]
                 ELSE [st EXCEPT !.msgs = Append(st.msgs,
                                                 Transcription(Id("file", dateNow),
                                                               "assistant", <<"file">>)),
                                 !.responses = pushed("result")]
         IN HandleCalls(Tail(calls), after)

\* setMessages(p => p.map(...)): the records whose id is sid get the text.
WithText(msgs, sid, text) ==
    IF msgs = <<>>
    THEN msgs
    ELSE [i \in 1..Len(msgs) |->
             IF msgs[i].id = sid THEN [msgs[i] EXCEPT !.text = text] ELSE msgs[i]]

\* onMessage of session s. `throws`: sendToolResponse throws (only on a stored
\* session that is not open), which ends the handler there. `deferred`: the
\* component has an update pending, so the updaters passed to setMessages are
\* called at the next render, after the handler has returned, and the refs
\* they read (the id of the opened record, the id and text of the record to
\* update, the text of the user record) hold what the handler left in them;
\* otherwise each updater is called within its setMessages. `cap`: the
\* longest message list followed.
OnMessageAs(cap, deferred, s, m, throws) ==
    /\ Quiescent
    /\ sessions[s] \in {"open", "closing"}
    /\ LET tool == HandleCalls(m.toolCall,
                               [msgs |-> messages, sid |-> streamingMsgIdRef,
                                out |-> currentOutputTextRef, responses |-> <<>>])
           sends == Len(tool.responses) > 0 /\ sessionRef # NoSession
       IN
       /\ throws => (sends /\ sessions[sessionRef] # "open")
       /\ sentToolResponses' =
              IF sends /\ ~throws
              THEN <<[to |-> sessionRef, functionResponses |-> tool.responses]>>
              ELSE <<>>
       /\ IF throws
          THEN /\ Len(tool.msgs) <= cap
               /\ messages' = tool.msgs
               /\ streamingMsgIdRef' = tool.sid
               /\ currentOutputTextRef' = tool.out
               /\ turnOpen' = FALSE
               /\ turnText' = <<>>
               /\ UNCHANGED <<currentInputTextRef, isThinking, isSpeaking,
                              stopAudioVars, payloadsQueued, inputHeard>>
          ELSE LET \* serverContent.interrupted
                   sid1 == IF m.interrupted THEN NoId ELSE tool.sid
                   out1 == IF m.interrupted THEN <<>> ELSE tool.out
                   \* serverContent.outputTranscription
                   hasOut == Len(m.outputTranscription) > 0
                   opens == hasOut /\ sid1 = NoId
                   sid2 == IF opens THEN Id("ai", dateNow) ELSE sid1
                   out2 == IF ~hasOut THEN out1
                           ELSE IF opens THEN m.outputTranscription[1]
                           ELSE out1 \o m.outputTranscription[1]
                   \* serverContent.inputTranscription
                   in3 == IF Len(m.inputTranscription) > 0
                          THEN currentInputTextRef \o m.inputTranscription[1]
                          ELSE currentInputTextRef
                   \* the refs when the handler returns
                   sid5 == IF m.turnComplete THEN NoId ELSE sid2
                   out5 == IF m.turnComplete THEN <<>> ELSE out2
                   in5 == IF m.turnComplete THEN <<>> ELSE in3
                   \* the updaters of serverContent.outputTranscription
                   msgs2 == IF ~hasOut THEN tool.msgs
                            ELSE IF opens
                            THEN Append(tool.msgs,
                                        Transcription(IF deferred THEN sid5 ELSE sid2,
                                                      "assistant",
                                                      m.outputTranscription[1]))
                            ELSE WithText(tool.msgs,
                                          IF deferred THEN sid5 ELSE sid1,
                                          IF deferred THEN out5 ELSE out2)
                   \* serverContent.turnComplete
                   msgs4 == IF m.turnComplete /\ Len(in3) > 0
                            THEN Append(msgs2,
                                        Transcription(Id("user", dateNow), "user",
                                                      IF deferred THEN in5 ELSE in3))
                            ELSE msgs2
                   \* the output turn as the messages delimit it
                   open0 == turnOpen /\ ~m.interrupted /\ Len(m.toolCall) = 0
                   text1 == IF ~hasOut THEN (IF open0 THEN turnText ELSE <<>>)
                            ELSE IF open0 THEN turnText \o m.outputTranscription[1]
                            ELSE m.outputTranscription[1]
                   heard == IF Len(m.inputTranscription) > 0
                            THEN inputHeard \o m.inputTranscription[1]
                            ELSE inputHeard
                   \* modelTurn audio: queueAudio returns at once without the
                   \* output context
                   queues == m.audio /\ audioContexts
               IN
               /\ Len(msgs4) <= cap
               /\ Len(out2) <= MaxText
               /\ Len(in3) <= MaxText
               /\ Len(text1) <= MaxText
               /\ Len(heard) <= MaxText
               /\ turnOpen' = IF m.turnComplete THEN FALSE ELSE (open0 \/ hasOut)
               /\ turnText' = IF m.turnComplete THEN <<>> ELSE text1
               /\ inputHeard' = IF m.turnComplete THEN <<>> ELSE heard
               /\ queues => payloadsQueued < MaxPayloads
               /\ messages' = msgs4
               /\ streamingMsgIdRef' = IF m.turnComplete THEN NoId ELSE sid2
               /\ currentOutputTextRef' = IF m.turnComplete THEN <<>> ELSE out2
               /\ currentInputTextRef' = IF m.turnComplete THEN <<>> ELSE in3
               /\ isThinking' = IF hasOut THEN FALSE ELSE isThinking
               /\ isSpeaking' = IF m.interrupted THEN FALSE ELSE isSpeaking
               /\ payloadsQueued' = IF queues THEN payloadsQueued + 1 ELSE payloadsQueued
               /\ IF m.interrupted
                  THEN StopAudioThen(IF queues THEN <<payloadsQueued + 1>> ELSE <<>>)
                  ELSE /\ audioProcessingChain' =
                              IF queues
                              THEN Append(audioProcessingChain, payloadsQueued + 1)
                              ELSE audioProcessingChain
                       /\ UNCHANGED <<sourcesRef, sourceState, staleChains,
                                      nextStartTimeRef, scheduled, workletNodeRef,
                                      installedCallbacks, mixVars>>
    /\ UNCHANGED <<status, sessionRef, reconnectCountRef, isExplicitlyTerminatedRef,
                   isReconnectingRef, stableConnectionTimerRef, reconnectTimers,
                   sessions, timerSurvivedDisconnect, dateNow, audioContexts,
                   recordingPending, currentTime, screenVars,
                   sessionMuted, pendingMuted, mediaVars>>

\* onMessage with whatever updates the component has pending.
OnMessage(s, m, throws) ==
    \E deferred \in BOOLEAN : OnMessageAs(MaxMessages, deferred, s, m, throws)

\* Date.now() advances.
ClockAdvance ==
    /\ dateNow < MaxClock
    /\ dateNow' = dateNow + 1
    /\ UNCHANGED <<ctlVars, streamingMsgIdRef, currentOutputTextRef,
                   currentInputTextRef, isThinking, sentToolResponses, turnVars,
                   captureVars, playVars, screenVars,
                   sessionMuted, pendingMuted, mediaVars>>

\* --------------------------------------------------- the application shell

\* getDisplayMedia resolved and the video plays: startScreenSharing succeeds.
StartScreenSharing ==
    /\ Quiescent
    /\ ~isScreenSharing
    /\ ~displayPending
    /\ isScreenSharing' = TRUE
    /\ shareSurvivedStop' = FALSE
    /\ UNCHANGED <<ctlVars, dialogVars, captureVars, playVars, previousFrameDataRef,
                   sessionMuted, pendingMuted, mediaVars>>

\* The user stops sharing, or the video track ends.
StopScreenSharing ==
    /\ Quiescent
    /\ isScreenSharing
    /\ StopScreenSharingOp
    /\ UNCHANGED <<ctlVars, dialogVars, captureVars, playVars, sessionMuted,
                   pendingMuted, mediaVars>>

\* startScreenSharing succeeds with a stream that has an audio track, and the
\* effect on [isScreenSharing, screenStream] runs: mixStream(screenStream).
StartScreenSharingMixed ==
    /\ Quiescent
    /\ ~isScreenSharing
    /\ ~displayPending
    /\ isScreenSharing' = TRUE
    /\ shareSurvivedStop' = FALSE
    /\ MixStreamOp("audio", FALSE)
    /\ UNCHANGED <<ctlVars, dialogVars, audioContexts, workletNodeRef,
                   installedCallbacks, recordingPending, playVars,
                   previousFrameDataRef, sessionMuted, pendingMuted, mediaVars>>

\* The user stops sharing, or the video track ends, and the effect runs:
\* mixStream(null).
StopScreenSharingMixed ==
    /\ Quiescent
    /\ isScreenSharing
    /\ StopScreenSharingOp
    /\ MixStreamOp("null", FALSE)
    /\ UNCHANGED <<ctlVars, dialogVars, audioContexts, workletNodeRef,
                   installedCallbacks, recordingPending, playVars, sessionMuted,
                   pendingMuted, mediaVars>>

\* startScreenSharing is called (the share button while not sharing): it awaits
\* getDisplayMedia.
StartScreenSharingCall ==
    /\ Quiescent
    /\ ~isScreenSharing
    /\ ~displayPending
    /\ displayPending' = TRUE
    /\ shareSurvivedStop' = FALSE
    /\ UNCHANGED <<ctlVars, dialogVars, captureVars, playVars, isScreenSharing,
                   previousFrameDataRef,
                   sessionMuted, pendingMuted, isMuted, workletMuted, vadVars,
                   samplerVars, backoffVars, workletVars>>

\* getDisplayMedia settles: the stream is kept and the flag set, or the request
\* was refused and the catch block logs it and calls stopScreenSharing().
StartScreenSharingDone(granted) ==
    /\ Quiescent
    /\ displayPending
    /\ displayPending' = FALSE
    /\ IF granted
       THEN /\ isScreenSharing' = TRUE
            /\ UNCHANGED <<previousFrameDataRef, shareSurvivedStop>>
       ELSE /\ isScreenSharing' = FALSE
            /\ previousFrameDataRef' = NoFrame
            /\ shareSurvivedStop' = FALSE
    /\ UNCHANGED <<ctlVars, dialogVars, captureVars, playVars, sessionMuted,
                   pendingMuted, isMuted, workletMuted, vadVars, samplerVars,
                   backoffVars, workletVars>>

\* clearChat of the application shell.
ClearChat ==
    /\ Quiescent
    /\ messages # <<>>
    /\ messages' = <<>>
    /\ UNCHANGED <<status, sessionRef, reconnectCountRef, isExplicitlyTerminatedRef,
                   isReconnectingRef, stableConnectionTimerRef, reconnectTimers,
                   sessions, timerSurvivedDisconnect, dialogVars, captureVars,
                   playVars, screenVars,
                   sessionMuted, pendingMuted, mediaVars>>

\* ------------------------------------------------------------ specifications

\* The state of the hooks after the first render.
InitHooks ==
    /\ status = DISCONNECTED
    /\ sessionRef = NoSession
    /\ reconnectCountRef = 0
    /\ isExplicitlyTerminatedRef = FALSE
    /\ isReconnectingRef = FALSE
    /\ stableConnectionTimerRef = FALSE
    /\ reconnectTimers = 0
    /\ sessions = [s \in Sessions |-> "none"]
    /\ messages = <<>>
    /\ timerSurvivedDisconnect = FALSE
    /\ streamingMsgIdRef = NoId
    /\ currentOutputTextRef = <<>>
    /\ currentInputTextRef = <<>>
    /\ isThinking = FALSE
    /\ isSpeaking = FALSE
    /\ sentToolResponses = <<>>
    /\ dateNow = 0
    /\ turnOpen = FALSE
    /\ turnText = <<>>
    /\ inputHeard = <<>>
    /\ audioContexts = FALSE
    /\ workletNodeRef = FALSE
    /\ installedCallbacks = 0
    /\ externalSourceRef = NoSource
    /\ externalConnected = {}
    /\ recordingPending = 0
    /\ audioProcessingChain = <<>>
    /\ staleChains = {}
    /\ sourcesRef = {}
    /\ sourceState = [p \in Payloads |-> "none"]
    /\ nextStartTimeRef = 0
    /\ currentTime = 0
    /\ scheduled = <<>>
    /\ payloadsQueued = 0
    /\ isScreenSharing = FALSE
    /\ displayPending = FALSE
    /\ wBuffer = <<>>
    /\ wPosted = <<>>
    /\ wFrames = 0
    /\ wFed = 0
    /\ shareSurvivedStop = FALSE
    /\ isMuted = FALSE
    /\ sessionMuted = [s \in Sessions |-> FALSE]
    /\ pendingMuted = [m \in BOOLEAN |-> 0]
    /\ workletMuted = FALSE
    /\ vadActiveRef = 0
    /\ isUserSpeaking = FALSE
    /\ inputLevel = 0
    /\ lowFrames = VAD_HYSTERESIS_FRAMES + 1
    /\ frameSent = FALSE
    /\ previousFrameDataRef = NoFrame
    /\ lastFrameTimeRef = 0
    /\ canvasSize = DefaultCanvas
    /\ lastSample = NoSample

\* The state after the first render, on a screen of the first resolution and
\* with no delay computed.
Init ==
    /\ InitHooks
    /\ videoSize = <<1280, 720>>
    /\ attempt = 0
    /\ jitter = 0
    /\ delay = NoDelay

\* The controller against every behaviour of the link.
Next ==
    \/ UserConnect
    \/ Disconnect
    \/ ReconnectTimerFire
    \/ StableTimerFire
    \/ \E s \in Sessions : OnOpen(s)
    \/ \E s \in Sessions : OnError(s)
    \/ \E s \in Sessions : OnClose(s)
    \/ \E s \in Sessions : ConnectFail(s)
    \/ \E g \in BOOLEAN : StartRecordingDone(g)
    \/ \E t \in BOOLEAN : SendRealtimeInput(t)
    \/ StartScreenSharing
    \/ StopScreenSharing
    \/ ClearChat

Spec == Init /\ [][Next]_vars

\* A link that does not drop: a session closes only after the client closed it.
ClientClosed == \E s \in Sessions : sessions[s] = "closing" /\ OnClose(s)

\* One session per run: the user does not connect again after a disconnect().
FirstConnect == ~isExplicitlyTerminatedRef /\ UserConnect

\* The playback scheduler fed by inbound audio and interruptions (the capture
\* side is left waiting for the device).
NextPlay ==
    \/ FirstConnect
    \/ Disconnect
    \/ ClientClosed
    \/ \E s \in Sessions : OnOpen(s)
    \/ \E s \in Sessions, m \in AudioMsgs, t \in BOOLEAN : OnMessage(s, m, t)
    \/ \E c \in RunningChains, ok \in BOOLEAN, d \in Durations : DecodeDone(c, ok, d)
    \/ \E p \in Payloads : SourceEnded(p)
    \/ Tick

SpecPlay == Init /\ [][NextPlay]_vars

\* The inbound message handler fed by tool-call batches.
NextTool ==
    \/ FirstConnect
    \/ Disconnect
    \/ ClientClosed
    \/ \E s \in Sessions : OnOpen(s)
    \/ \E g \in BOOLEAN : StartRecordingDone(g)
    \/ \E s \in Sessions, m \in ToolMsgs, t \in BOOLEAN : OnMessage(s, m, t)
    \/ ClearChat

SpecTool == Init /\ [][NextTool]_vars

\* The inbound message handler fed by transcripts, turn ends and interruptions.
NextText ==
    \/ FirstConnect
    \/ Disconnect
    \/ ClientClosed
    \/ \E s \in Sessions : OnOpen(s)
    \/ \E g \in BOOLEAN : StartRecordingDone(g)
    \/ \E s \in Sessions, m \in ContentMsgs, t \in BOOLEAN : OnMessage(s, m, t)
    \/ ClearChat
    \/ ClockAdvance

SpecText == Init /\ [][NextText]_vars

\* Messages that carry an interruption, an output transcript delta, audio, or
\* several of them.
InterruptMsgs ==
    {[NoMessage EXCEPT !.interrupted = i, !.outputTranscription = o, !.audio = a] :
        i \in BOOLEAN, o \in Opt(Deltas), a \in BOOLEAN}
      \ {NoMessage}

\* Playback and the output transcript of one session under interruptions.
NextInterrupt ==
    \/ FirstConnect
    \/ \E s \in Sessions : OnOpen(s)
    \/ \E s \in Sessions, m \in InterruptMsgs, t \in BOOLEAN : OnMessage(s, m, t)
    \/ \E c \in RunningChains, ok \in BOOLEAN, d \in Durations : DecodeDone(c, ok, d)
    \/ ClearChat

SpecInterrupt == Init /\ [][NextInterrupt]_vars

\* The capture callback, frame by frame, with the mute toggle of the user
\* interface; the link may drop, and is then not retried.
NextCapture ==
    \/ FirstConnect
    \/ Disconnect
    \/ \E s \in Sessions : OnOpen(s)
    \/ \E s \in Sessions : OnClose(s)
    \/ \E g \in BOOLEAN : StartRecordingDone(g)
    \/ \E r \in RmsLevels, t \in BOOLEAN : CaptureFrame(r, t)
    \/ ToggleMute

SpecCapture == Init /\ [][NextCapture]_vars

\* The screen sampler alone: sharing starts and stops, the source changes its
\* size, ticks sample the screen.
InitScreen ==
    /\ InitHooks
    /\ videoSize \in Resolutions
    /\ attempt = 0
    /\ jitter = 0
    /\ delay = NoDelay

NextScreen ==
    \/ StartScreenSharing
    \/ StopScreenSharing
    \/ \E f \in Frames, d \in BOOLEAN, t \in BOOLEAN : SamplerTick(f, d, t)
    \/ SamplerIdle
    \/ \E size \in Resolutions : SourceResize(size)

SpecScreen == InitScreen /\ [][NextScreen]_vars

\* The delay computation alone, over the tries of one run of failures.
NextBackoff ==
    \/ \E j \in JitterSamples : ComputeDelay(j)
    \/ ResetDelay

SpecBackoff == Init /\ [][NextBackoff]_vars

\* One session with playback, capture and screen sharing, and the stop
\* operations called at any moment.
NextStop ==
    \/ FirstConnect
    \/ Disconnect
    \/ ClientClosed
    \/ \E s \in Sessions : OnOpen(s)
    \/ \E granted \in BOOLEAN : StartRecordingDone(granted)
    \/ \E s \in Sessions, m \in AudioMsgs, t \in BOOLEAN : OnMessage(s, m, t)
    \/ \E c \in RunningChains, ok \in BOOLEAN, d \in Durations : DecodeDone(c, ok, d)
    \/ StopAudioCall
    \/ StartScreenSharing
    \/ StopScreenSharingCall

SpecStop == Init /\ [][NextStop]_vars

\* Messages that carry audio only.
PlainAudioMsgs == {[NoMessage EXCEPT !.audio = TRUE]}

\* The playback chain of one session fed by audio while capture starts, with
\* no interruption and no stop. A decode that was started settles (it resolves or rejects), so the
\* head job of a chain always finishes.
NextDecode ==
    \/ FirstConnect
    \/ \E s \in Sessions : OnOpen(s)
    \/ \E granted \in BOOLEAN : StartRecordingDone(granted)
    \/ \E s \in Sessions, m \in PlainAudioMsgs, t \in BOOLEAN : OnMessage(s, m, t)
    \/ \E c \in RunningChains, ok \in BOOLEAN, d \in Durations : DecodeDone(c, ok, d)
    \/ \E p \in Payloads : SourceEnded(p)
    \/ Tick

DecodeSettles ==
    \E c \in RunningChains, ok \in BOOLEAN, d \in Durations : DecodeDone(c, ok, d)

SpecDecode == Init /\ [][NextDecode]_vars /\ WF_vars(DecodeSettles)

\* One session whose microphone and display requests are granted or refused.
NextPermission ==
    \/ FirstConnect
    \/ Disconnect
    \/ ClientClosed
    \/ \E s \in Sessions : OnOpen(s)
    \/ \E granted \in BOOLEAN : StartRecordingDone(granted)
    \/ StartScreenSharingCall
    \/ \E granted \in BOOLEAN : StartScreenSharingDone(granted)
    \/ StopScreenSharing
    \/ ClearChat
    \/ ClockAdvance

SpecPermission == Init /\ [][NextPermission]_vars

\* The capture graph of one session on a link that may drop, with a screen
\* share and mixStream called at any moment.
NextMixer ==
    \/ FirstConnect
    \/ Disconnect
    \/ \E s \in Sessions : OnOpen(s)
    \/ \E granted \in BOOLEAN : StartRecordingDone(granted)
    \/ \E stream \in MixInputs, t \in BOOLEAN : MixStream(stream, t)
    \/ StopAudioCall
    \/ \E s \in Sessions : OnClose(s)
    \/ ReconnectTimerFire
    \/ StartScreenSharing
    \/ StopScreenSharing

SpecMixer == Init /\ [][NextMixer]_vars

\* The screen share of one session: start requests that settle later, stops
\* by the user, by the track or by disconnect(), and the sampler.
NextShare ==
    \/ FirstConnect
    \/ Disconnect
    \/ \E s \in Sessions : OnOpen(s)
    \/ StartScreenSharingCall
    \/ \E granted \in BOOLEAN : StartScreenSharingDone(granted)
    \/ StopScreenSharing
    \/ \E f \in Frames, d \in BOOLEAN, t \in BOOLEAN : SamplerTick(f, d, t)

SpecShare == Init /\ [][NextShare]_vars

\* The messages that open, extend and end the turns of a transcript: the
\* content messages whose deltas are empty or one character, and the tool
\* calls of one call each.
TurnMsgs ==
    {c \in ContentMsgs : /\ c.outputTranscription \in Opt({<<>>, <<"a">>})
                          /\ c.inputTranscription \in Opt({<<>>, <<"a">>})}
      \cup {t \in ToolMsgs : Len(t.toolCall) = 1}

\* The message list and the transcript buffers over one session on a link that
\* stays up, with up to MaxRecords records in a list that is not cleared.
NextTranscript ==
    \/ FirstConnect
    \/ \E s \in Sessions : OnOpen(s)
    \/ \E s \in Sessions, m \in TurnMsgs, d \in BOOLEAN :
          OnMessageAs(MaxRecords, d, s, m, FALSE)
    \/ ClockAdvance

SpecTranscript == Init /\ [][NextTranscript]_vars

\* The sampler over contents whose pixels are compared, the source keeping a
\* size within VISUAL_MAX_DIMENSION, at which it is drawn.
InitPixels ==
    /\ InitScreen
    /\ videoSize[1] <= VISUAL_MAX_DIMENSION
    /\ videoSize[2] <= VISUAL_MAX_DIMENSION

NextPixels ==
    \/ StartScreenSharing
    \/ StopScreenSharing
    \/ \E f \in Shots : PixelTick(f)
    \/ SamplerIdle

SpecPixels == InitPixels /\ [][NextPixels]_vars

\* The recorder worklet alone, block after block.
NextWorklet == \E n \in BlockLens : Process(n)

SpecWorklet == Init /\ [][NextWorklet]_vars

\* The capture pipeline across opens, reconnects and disconnects, with
\* startRecording calls that overlap each other and stopAudio.
NextRecord ==
    \/ UserConnect
    \/ Disconnect
    \/ ReconnectTimerFire
    \/ \E s \in Sessions : OnOpenAs(MaxOverlap, s)
    \/ \E s \in Sessions : OnClose(s)
    \/ \E g \in BOOLEAN : StartRecordingDone(g)

SpecRecord == Init /\ [][NextRecord]_vars

\* The mixer route as the application drives it: mixStream is called by the
\* effect only, when sharing starts or stops; the capture graph comes and goes
\* with opens, link drops, reconnects and disconnects.
NextRoute ==
    \/ UserConnect
    \/ Disconnect
    \/ ReconnectTimerFire
    \/ \E s \in Sessions : OnOpen(s)
    \/ \E s \in Sessions : OnClose(s)
    \/ \E g \in BOOLEAN : StartRecordingDone(g)
    \/ StartScreenSharingMixed
    \/ StopScreenSharingMixed

SpecRoute == Init /\ [][NextRoute]_vars

TypeOK ==
    /\ status \in ConnectionStatus
    /\ sessionRef \in Sessions \cup {NoSession}
    /\ reconnectCountRef \in 0..(MAX_ATTEMPTS + 1)
    /\ reconnectTimers \in 0..1
    /\ sessions \in [Sessions -> Phases]
    /\ Len(messages) <= (IF MaxRecords > MaxMessages THEN MaxRecords ELSE MaxMessages)
    /\ turnOpen \in BOOLEAN
    /\ Len(turnText) <= MaxText
    /\ Len(inputHeard) <= MaxText
    /\ sourcesRef \subseteq Payloads
    /\ payloadsQueued \in 0..MaxPayloads
    /\ currentTime \in 0..MaxTime
    /\ Len(sentToolResponses) <= 1
    /\ externalSourceRef \in MixIds \cup {NoSource}
    /\ externalConnected \subseteq MixIds
    /\ displayPending \in BOOLEAN
    /\ Len(wBuffer) <= BUFFER_SIZE
    /\ wFed \in 0..MaxFed
    /\ wFrames \in 0..wFed
    /\ isMuted \in BOOLEAN
    /\ sessionMuted \in [Sessions -> BOOLEAN]
    /\ pendingMuted \in [BOOLEAN -> 0..(IF MaxOverlap > MaxRecording
                                          THEN MaxOverlap ELSE MaxRecording)]
    /\ installedCallbacks \in Nat
    /\ vadActiveRef \in 0..VAD_HYSTERESIS_FRAMES
    /\ inputLevel \in RmsLevels
    /\ lowFrames \in 0..(VAD_HYSTERESIS_FRAMES + 1)
    /\ previousFrameDataRef \in Frames \cup Shots \cup {NoFrame}
    /\ dateNow \in 0..(MaxTicks * TICK_MS)
    /\ lastFrameTimeRef \in 0..(MaxTicks * TICK_MS)
    /\ videoSize \in Resolutions
    /\ attempt \in 0..MaxAttempt
    /\ delay = NoDelay \/ (delay >= 0 /\ delay <= MAX_BACKOFF_MS * Scale)
\* ==================================================================== claims

\* handleReconnect is called in this step: by onError / onClose (which call it
\* only when not explicitly terminated), by the catch block of connect, or by
\* sendRealtimeInput when the send throws.
HandleReconnectCalled ==
    \/ /\ ~isExplicitlyTerminatedRef
       /\ \E s \in Sessions : OnError(s) \/ OnClose(s)
    \/ \E s \in Sessions : ConnectFail(s)
    \/ /\ sessionRef # NoSession
       /\ ~isExplicitlyTerminatedRef
       /\ SendRealtimeInput(TRUE)

\* A session open is initiated in this step (ai.live.connect is called).
SessionOpenInitiated ==
    \E s \in Sessions : sessions[s] # "connecting" /\ sessions'[s] = "connecting"

\* C1 (as stated): a reconnect timer that was pending when disconnect() ran
\* never initiates a session open when it fires later, whatever happened in
\* between (a fresh user connect() included).
C1_StaleTimerOpensNoSession ==
    [][(ReconnectTimerFire /\ timerSurvivedDisconnect) => ~SessionOpenInitiated]_vars

\* C2 (as stated): whenever handleReconnect is called with the attempt counter
\* above MAX_ATTEMPTS, ConnectionState becomes Error and no connect is scheduled.
C2_CapOnEveryCall ==
    [][(HandleReconnectCalled /\ reconnectCountRef > MAX_ATTEMPTS)
         => (status' = ERROR /\ reconnectTimers' = reconnectTimers)]_vars

\* C2 (amended): whenever handleReconnect is called with the attempt counter
\* above MAX_ATTEMPTS while no reconnect is already pending and the session
\* is not explicitly terminated, ConnectionState becomes Error, no timer is
\* scheduled and no session open is initiated; every scheduled reconnect
\* raises the counter by one from a value of at most MAX_ATTEMPTS, so the
\* counter never exceeds MAX_ATTEMPTS + 1 and a run of failed attempts reaches
\* Error after at most MAX_ATTEMPTS + 1 scheduled reconnects.
C2_ReconnectCap ==
    /\ [](reconnectCountRef <= MAX_ATTEMPTS + 1)
    /\ [][(/\ HandleReconnectCalled
           /\ reconnectCountRef > MAX_ATTEMPTS
           /\ ~isReconnectingRef
           /\ ~isExplicitlyTerminatedRef)
            => (/\ status' = ERROR
                /\ reconnectTimers' = reconnectTimers
                /\ isReconnectingRef' = FALSE
                /\ ~SessionOpenInitiated)]_vars
    /\ [][reconnectTimers' > reconnectTimers
            => (/\ reconnectCountRef <= MAX_ATTEMPTS
                /\ reconnectCountRef' = reconnectCountRef + 1)]_vars

\* C2 witness: the cap was hit: Error with the counter above the maximum and
\* no timer pending.
C2_Witness ==
    /\ status = ERROR
    /\ reconnectCountRef > MAX_ATTEMPTS
    /\ reconnectTimers = 0

\* C3 (as stated): once ConnectionState is Error it stays Error, no reconnect
\* timer is scheduled and no session open is initiated, until the user calls
\* connect() or disconnect().
C3_ErrorIsTerminal ==
    [][(status = ERROR /\ ~UserConnect /\ ~Disconnect)
         => (/\ status' = ERROR
             /\ reconnectTimers' = reconnectTimers
             /\ ~SessionOpenInitiated)]_vars

\* C4 (as stated): the stability timer resets the attempt counter only when the
\* connection stayed Connected since the open that started it (every open
\* restarts the timer, so Connected at firing time means no interruption).
C4_StabilityTimerOnlyWhenConnected ==
    [][StableTimerFire => status = CONNECTED]_vars

\* C5 (as stated): every change of ConnectionState is one of the transitions of
\* the session state machine.
C5_OnlyStateMachineTransitions ==
    [][status' # status =>
        \/ /\ UserConnect
           /\ status \in {DISCONNECTED, ERROR}
           /\ status' = CONNECTING
        \/ /\ \E s \in Sessions : OnOpen(s)
           /\ status = CONNECTING
           /\ status' = CONNECTED
        \/ /\ HandleReconnectCalled
           /\ status \in {CONNECTED, CONNECTING}
           /\ status' \in {CONNECTING, ERROR}
        \/ /\ Disconnect
           /\ status' = DISCONNECTED]_vars

\* C6: after disconnect(), from any prior state, the explicit-termination flag
\* is set, the stability timer is cancelled, ConnectionState is Disconnected,
\* the capture callback is detached, the playback active set is empty, screen
\* sharing is stopped and no session handle is retained; and ConnectionState
\* leaves Disconnected only by a user connect(), whatever callback or timer
\* arrives in between.
C6_DisconnectIsFinal ==
    /\ [][Disconnect => (/\ isExplicitlyTerminatedRef'
                         /\ ~stableConnectionTimerRef'
                         /\ status' = DISCONNECTED
                         /\ ~workletNodeRef'
                         /\ sourcesRef' = {}
                         /\ ~isScreenSharing'
                         /\ sessionRef' = NoSession)]_vars
    /\ [][(status = DISCONNECTED /\ status' # DISCONNECTED) => UserConnect]_vars

\* C6 witness: Disconnected after a disconnect() that left a reconnect timer
\* pending and a session still to deliver its close.
C6_Witness ==
    /\ status = DISCONNECTED
    /\ isExplicitlyTerminatedRef
    /\ reconnectTimers > 0
    /\ \E s \in Sessions : sessions[s] = "closing"

\* C7 (as stated): every transition of ConnectionState to Error or to
\* Disconnected leaves neither the capture callback installed nor the screen
\* sampler running.
C7_ProducersDownOnErrorOrDisconnect ==
    [][(status' # status /\ status' \in {ERROR, DISCONNECTED})
         => (~workletNodeRef' /\ ~isScreenSharing')]_vars

\* C8 (as stated): handling a tool-call batch sends exactly one
\* acknowledgement, which holds exactly one response per call of the batch, in
\* order, with the call's id and name: an error if its handler threw, a result
\* otherwise.
C8_EveryCallAnswered ==
    [][\A s \in Sessions, m \in ToolMsgs, t \in BOOLEAN :
          OnMessage(s, m, t) =>
              /\ Len(sentToolResponses') = 1
              /\ LET r == sentToolResponses'[1].functionResponses IN
                 /\ Len(r) = Len(m.toolCall)
                 /\ \A i \in 1..Len(r) :
                       /\ r[i].id = m.toolCall[i].id
                       /\ r[i].name = m.toolCall[i].name
                       /\ r[i].kind = IF m.toolCall[i].throws
                                      THEN "error" ELSE "result"]_vars

\* C9 (as stated): sources are started on the output clock in the order their
\* payloads were passed to queueAudio (payloads are numbered in that order).
C9_ArrivalOrder ==
    \A i, j \in DOMAIN scheduled :
        i < j => scheduled[i].id < scheduled[j].id

\* C10 (as stated): of any two sources started by queueAudio, the later starts
\* no earlier than the end of the earlier.
C10_NoOverlapAny ==
    \A i, j \in DOMAIN scheduled :
        i < j => scheduled[j].start >= scheduled[i].start + scheduled[i].duration

\* No stopAudio ran between the scheduling of source i and that of source j.
NoFlushBetween(i, j) == \A k \in i..(j - 1) : ~scheduled[k].cut

\* The next free time when source j was scheduled.
FreeTimeAt(j) ==
    IF j = 1 \/ scheduled[j - 1].cut
    THEN 0
    ELSE scheduled[j - 1].start + scheduled[j - 1].duration

\* C10 (amended): of any two sources started by queueAudio with no stopAudio()
\* between their scheduling, the later starts no earlier than the end of the
\* earlier; each start is the next free time, or now + the guard if the next
\* free time has already passed.
C10_NoOverlapWithoutFlush ==
    /\ \A i, j \in DOMAIN scheduled :
          (i < j /\ NoFlushBetween(i, j))
             => scheduled[j].start >= scheduled[i].start + scheduled[i].duration
    /\ \A j \in DOMAIN scheduled :
          scheduled[j].start = IF FreeTimeAt(j) < scheduled[j].now
                               THEN scheduled[j].now + SCHEDULE_GUARD
                               ELSE FreeTimeAt(j)

\* C10 witness: two sources scheduled with no stopAudio() in between, the
\* second after the next free time had passed (the guard was applied).
C10_Witness ==
    \E i, j \in DOMAIN scheduled :
        /\ i < j
        /\ NoFlushBetween(i, j)
        /\ scheduled[j].start = scheduled[j].now + SCHEDULE_GUARD
        /\ scheduled[j].start > scheduled[i].start + scheduled[i].duration

C12_VadHysteresis ==
    /\ lowFrames <= VAD_HYSTERESIS_FRAMES => isUserSpeaking
    /\ lowFrames > VAD_HYSTERESIS_FRAMES => ~isUserSpeaking

\* C12 witness: speaking is still reported after exactly VAD_HYSTERESIS_FRAMES
\* low frames, the last of them exactly at the threshold.
C12_Witness ==
    /\ isUserSpeaking
    /\ lowFrames = VAD_HYSTERESIS_FRAMES
    /\ inputLevel = VAD_THRESHOLD

\* C13 (as stated): after every processed frame the reported speaking state is
\* true if and only if the hysteresis counter is greater than zero.
C13_SpeakingIffCounterPositive == isUserSpeaking <=> vadActiveRef > 0

\* C13 (amended): the speaking state is true whenever the counter is greater
\* than zero, and it is true with the counter at zero only after the low frame
\* that brought the counter to zero, the VAD_HYSTERESIS_FRAMES-th since the last
\* frame above the threshold.
C13_SpeakingWhileCounterPositive ==
    /\ vadActiveRef > 0 => isUserSpeaking
    /\ (isUserSpeaking /\ vadActiveRef = 0) => lowFrames = VAD_HYSTERESIS_FRAMES

\* C13 witness: the counter has just reached zero and speaking is still true.
C13_Witness == isUserSpeaking /\ vadActiveRef = 0 /\ inputLevel = 0

\* C19 (as stated): after stopAudio() no frame is processed until capture is
\* started again by a later connection attempt. ConnectionState is Disconnected
\* or Error only from a step that ran stopAudio(), and stays so only while no
\* onOpen has started capture again: no frame is processed in these states.
C19_NoFrameAfterStop ==
    [][\A r \in RmsLevels, t \in BOOLEAN :
          CaptureFrame(r, t) => status \notin {DISCONNECTED, ERROR}]_vars

\* C20 (as stated): every delivered frame has its level and its VAD state
\* reported, muted or not, and is handed to the sink if and only if isMuted is
\* false.
C20_SentIffNotMuted ==
    [][\A r \in RmsLevels, t \in BOOLEAN :
          CaptureFrame(r, t) =>
              /\ inputLevel' = r
              /\ isUserSpeaking' = Vad(r, vadActiveRef, isUserSpeaking).speaking
              /\ frameSent' <=> ~isMuted]_vars

C15_IdenticalFrameNotResent ==
    [][\A f \in Frames, d \in BOOLEAN, t \in BOOLEAN :
          (/\ SamplerTick(f, d, t)
           /\ previousFrameDataRef = f
           /\ lastSample.size = videoSize
           /\ dateNow' - lastFrameTimeRef < HEARTBEAT_MS)
              => ~lastSample'.sent]_vars

\* C16: the delay computed for attempt N is min(1000 * 1.5^N + jitter,
\* MAX_BACKOFF_MS) with 0 <= jitter < 500, so it never exceeds MAX_BACKOFF_MS;
\* without jitter it is min(1000 * 1.5^N, MAX_BACKOFF_MS), which does not
\* decrease from one attempt to the next.
C16_Backoff ==
    delay # NoDelay =>
        LET ideal == BASE_DELAY_MS * Pow(3, attempt) * Pow(2, MaxAttempt - attempt)
            cap == MAX_BACKOFF_MS * Scale
        IN  /\ jitter >= 0
            /\ jitter < JITTER_MS * Scale
            /\ delay <= cap
            /\ (ideal + jitter <= cap => delay = ideal + jitter)
            /\ (ideal + jitter > cap => delay = cap)
            /\ Delay(attempt, 0) = (IF ideal <= cap THEN ideal ELSE cap)
            /\ \A m \in 0..attempt : Delay(m, 0) <= Delay(attempt, 0)

\* C16 witness: the first attempt whose delay the cap cuts (1000 * 1.5^6 is
\* above 10000), with a positive jitter.
C16_Witness ==
    /\ attempt = MAX_ATTEMPTS + 1
    /\ jitter > 0
    /\ delay = MAX_BACKOFF_MS * Scale

\* The session send would throw: a handle is stored, the session is not
\* explicitly terminated and the stored session is not open.
SendWouldThrow ==
    /\ Quiescent
    /\ sessionRef # NoSession
    /\ ~isExplicitlyTerminatedRef
    /\ sessions[sessionRef] # "open"

\* C17 (as stated): whenever the send throws inside sendRealtimeInput while a
\* session handle exists and the session is not explicitly terminated, a
\* reconnect is triggered: capture and playback are torn down and
\* ConnectionState becomes Connecting, or Error if the cap is exceeded. A
\* throwing send that finds a reconnect pending changes nothing, so there the
\* state it is made in must already be the torn-down one.
C17_SendFailureReconnects ==
    /\ [][(/\ sessionRef # NoSession
            /\ ~isExplicitlyTerminatedRef
            /\ SendRealtimeInput(TRUE))
              => /\ status' \in {CONNECTING, ERROR}
                 /\ ~workletNodeRef'
                 /\ sourcesRef' = {}]_vars
    /\ []((SendWouldThrow /\ isReconnectingRef)
              => /\ status \in {CONNECTING, ERROR}
                 /\ ~workletNodeRef
                 /\ sourcesRef = {})

\* C18: stopAudio(), stopScreenSharing() and disconnect() can be called in any
\* state; each leaves its stopped state, and called again in that state (twice
\* in a row) changes nothing.
C18_StopIdempotent ==
    [][/\ StopAudioCall => StopAudioPost'
       /\ (StopAudioCall /\ StopAudioPost) => UNCHANGED vars
       /\ StopScreenSharingCall => StopScreenSharingPost'
       /\ (StopScreenSharingCall /\ StopScreenSharingPost) => UNCHANGED vars
       /\ Disconnect => DisconnectPost'
       /\ (Disconnect /\ DisconnectPost) => UNCHANGED vars]_vars

\* C18 witness: disconnect() has stopped a playing source, the capture
\* callback and the screen share, and left its stopped state.
C18_Witness ==
    /\ DisconnectPost
    /\ \E p \in Payloads : sourceState[p] = "stopped"
    /\ staleChains # {}
    /\ audioContexts

\* The payloads whose job is still in a chain.
InChain == UNION {{c[i] : i \in DOMAIN c} : c \in RunningChains}

\* C21: a failed decode drops its chunk only (nothing is started for it) and
\* leaves the jobs enqueued after it in the chain; the sources are started in
\* the order their payloads were enqueued; and every enqueued payload leaves
\* the chain (decoded and started, or dropped): the chain is never stuck.
C21_DecodeFailureIsolated ==
    /\ [][\A c \in RunningChains :
            DecodeDone(c, FALSE, 1) =>
                /\ UNCHANGED <<sourcesRef, sourceState, scheduled, nextStartTimeRef>>
                /\ audioProcessingChain' = Tail(c)
                /\ \A i \in DOMAIN Tail(c) : Tail(c)[i] \in InChain']_vars
    /\ [](\A i, j \in DOMAIN scheduled : i < j => scheduled[i].id < scheduled[j].id)
    /\ \A p \in Payloads : (p \in InChain) ~> (p \notin InChain)

\* C21 witness: the decode of the first payload failed and the payload
\* enqueued after it has been started.
C21_Witness ==
    /\ payloadsQueued >= 2
    /\ sourceState[1] = "none"
    /\ 1 \notin InChain
    /\ sourceState[2] = "playing"

\* No onended callback of a stopped source is still to come.
NoCallbackPending == \A p \in Payloads : sourceState[p] # "stopped"

\* C22: once no callback is pending, the speaking indicator is true if and
\* only if the active-source set is not empty, whatever enqueues, source ends,
\* interruptions and stops came before.
C22_SpeakingIffActive ==
    NoCallbackPending => (isSpeaking <=> sourcesRef # {})

\* C22 witness: a source was cut off by a stop or an interruption, its
\* onended has run, and another source is active: the indicator is true.
C22_Witness ==
    /\ NoCallbackPending
    /\ \E p \in Payloads : sourceState[p] = "ended" /\ Scheduled(p).cut
    /\ sourcesRef # {}
    /\ isSpeaking

\* C23 (as stated): when the microphone (on open) or the display
\* (startScreenSharing) is refused, exactly one system message is appended,
\* ConnectionState is unchanged and no reconnect is triggered.
C23_DenialReportedOnce ==
    [][(StartRecordingDone(FALSE) \/ StartScreenSharingDone(FALSE))
          => /\ Len(messages') = Len(messages) + 1
             /\ messages'[Len(messages')].role = "system"
             /\ SubSeq(messages', 1, Len(messages)) = messages
             /\ status' = status
             /\ UNCHANGED <<isReconnectingRef, reconnectTimers, reconnectCountRef>>]_vars

\* The capture graph is live: mixStream does not return at once.
GraphLive == audioContexts /\ workletNodeRef

\* C24: at most one external source is connected to the graph, and it is the
\* one mixStream keeps; a call with a stream that has an audio track, made
\* while the graph is live, disconnects the source routed before and leaves
\* the new one connected alone; a call with null leaves none connected.
C24_MixerRouting ==
    /\ [](Cardinality(externalConnected) <= 1)
    /\ [](externalConnected \subseteq {externalSourceRef})
    /\ [][(GraphLive /\ MixStream("audio", FALSE))
             => /\ externalSourceRef' # NoSource
                /\ externalSourceRef' # externalSourceRef
                /\ externalConnected' = {externalSourceRef'}]_vars
    /\ [][(GraphLive /\ MixStream("null", FALSE))
             => /\ externalSourceRef' = NoSource
                /\ externalConnected' = {}]_vars

\* C24 witness: a second stream was routed while the first was connected: the
\* second source is connected alone.
C24_Witness ==
    /\ GraphLive
    /\ externalSourceRef = 2
    /\ externalConnected = {2}

\* C25 (as stated): stopScreenSharing(), called by the user, by the ended
\* track or by disconnect(), leaves the sampler not sharing with the previous
\* frame cleared, and no frame is emitted afterwards until startScreenSharing()
\* is called again: no tick emits a frame for a share whose start call
\* predates the stop.
C25_ScreenStop ==
    /\ [][(StopScreenSharing \/ Disconnect)
             => (~isScreenSharing' /\ previousFrameDataRef' = NoFrame)]_vars
    /\ [][\A f \in Frames, d \in BOOLEAN, t \in BOOLEAN :
             (SamplerTick(f, d, t) /\ lastSample'.sent) => ~shareSurvivedStop]_vars

\* C26 (as stated): a payload enqueued before a stopAudio() is never started
\* on the output clock after it: no job of a chain that stopAudio() replaced
\* starts a source.
C26_StopDiscardsPending ==
    [][\A c \in staleChains, d \in Durations : ~DecodeDone(c, TRUE, d)]_vars
\* ---------------------------------------------------------------------------
\* C27: the attempt counter changes only by a reset to 0 at a connect() of the
\* user, a reset to 0 when the stability timer fires, or +1 when
\* handleReconnect schedules an attempt (one more timer pending); the
\* connect() issued by the reconnect timer changes neither the counter nor the
\* explicit-termination flag, and with the flag set it opens no session and
\* leaves ConnectionState alone.
C27_CounterDiscipline ==
    [][/\ reconnectCountRef' # reconnectCountRef
          => \/ UserConnect /\ reconnectCountRef' = 0
             \/ StableTimerFire /\ reconnectCountRef' = 0
             \/ /\ HandleReconnectCalled
                /\ reconnectCountRef' = reconnectCountRef + 1
                /\ reconnectTimers' = reconnectTimers + 1
       /\ ReconnectTimerFire
          => /\ reconnectCountRef' = reconnectCountRef
             /\ isExplicitlyTerminatedRef' = isExplicitlyTerminatedRef
             /\ isExplicitlyTerminatedRef
                  => (~SessionOpenInitiated /\ status' = status)]_vars

\* C27 witness: the second scheduled attempt has issued its connect(): a
\* session is opening, no timer is pending and the counter still reads 2.
C27_Witness ==
    /\ reconnectCountRef = 2
    /\ reconnectTimers = 0
    /\ ~isReconnectingRef
    /\ ~isExplicitlyTerminatedRef
    /\ \E s \in Sessions : sessions[s] = "connecting"

\* ---------------------------------------------------------------------------
\* A message m of the transcript is handled in this step.
Handled(m) ==
    \E s \in Sessions, d \in BOOLEAN : OnMessageAs(MaxRecords, d, s, m, FALSE)

\* The records of the list before the step, other than the i-th, are in the
\* list after it as they were.
OthersKept(i) ==
    /\ Len(messages') >= Len(messages)
    /\ \A j \in 1..Len(messages) : j # i => messages'[j] = messages[j]

\* C28 (as stated): for the output transcript deltas d1..dn of one output turn
\* (no turn-complete, interruption or tool call between them), d1 creates one
\* assistant record with text d1, a later delta dk creates none and leaves
\* that record with the text d1 + ... + dk, and no other record is modified.
C28_OutputAccumulates ==
    [][\A m \in TurnMsgs :
          (Handled(m) /\ Len(m.outputTranscription) > 0 /\ ~m.interrupted) =>
              LET n == Len(messages)
                  delta == m.outputTranscription[1]
                  created == {j \in (n + 1)..Len(messages') :
                                 messages'[j].role = "assistant"}
              IN IF ~turnOpen
                 THEN /\ created = {n + 1}
                      /\ messages'[n + 1].text = delta
                      /\ OthersKept(0)
                 ELSE /\ created = {}
                      /\ \E i \in 1..n :
                            /\ messages[i].role = "assistant"
                            /\ messages[i].text = turnText
                            /\ messages'[i].text = turnText \o delta
                            /\ OthersKept(i)]_vars

\* C29 (as stated): a message without a turn-complete signal appends no user
\* record, whatever input delta it carries; a turn-complete signal appends
\* exactly one user record, whose text is the concatenation of the input
\* deltas received since the previous turn-complete, if that text is not
\* empty, and none otherwise, and leaves both buffers empty and no output turn
\* open.
C29_TurnCompleteFlushesInput ==
    [][\A m \in TurnMsgs :
          Handled(m) =>
              LET users == {j \in (Len(messages) + 1)..Len(messages') :
                               messages'[j].role = "user"}
                  heard == IF Len(m.inputTranscription) > 0
                           THEN inputHeard \o m.inputTranscription[1]
                           ELSE inputHeard
              IN IF ~m.turnComplete
                 THEN users = {}
                 ELSE /\ IF heard # <<>>
                         THEN /\ Cardinality(users) = 1
                              /\ \A j \in users : messages'[j].text = heard
                         ELSE users = {}
                      /\ currentInputTextRef' = <<>>
                      /\ currentOutputTextRef' = <<>>
                      /\ streamingMsgIdRef' = NoId]_vars

\* C30 (as stated): the first output transcript delta handled after a
\* turn-complete signal, an interruption signal or a tool call appends a new
\* assistant record whose text is that delta alone, and leaves every record
\* already in the list, the one of the turn that was open before included, as
\* it was.
C30_ResetStartsNewRecord ==
    [][\A m \in TurnMsgs :
          (Handled(m) /\ Len(m.outputTranscription) > 0
             /\ (m.interrupted \/ ~turnOpen)) =>
              LET n == Len(messages) IN
              /\ Len(messages') > n
              /\ messages'[n + 1].role = "assistant"
              /\ messages'[n + 1].text = m.outputTranscription[1]
              /\ OthersKept(0)]_vars

C32_CacheClearedOnResizeOnly ==
    [][\A f \in Frames, d \in BOOLEAN, t \in BOOLEAN :
          (SamplerTick(f, d, t) /\ previousFrameDataRef # NoFrame)
              => (lastSample'.why = "first"
                    <=> TargetSize(videoSize) # TargetSize(lastSample.size))]_vars

\* ---------------------------------------------------------------------------
\* The samples numbered a + 1 .. b of the input stream, in order.
Stream(a, b) == [i \in 1..(b - a) |-> a + i]

\* C33: whatever the lengths of the input blocks, every posted frame has
\* exactly bufferSize samples, the k-th frame posted holds the samples
\* (k - 1) * bufferSize + 1 .. k * bufferSize of the input stream, and the
\* buffer holds the samples after them, fewer than bufferSize of them.
C33_WorkletFraming ==
    /\ \A j \in 1..Len(wPosted) :
          LET k == wFrames - Len(wPosted) + j
          IN  /\ Len(wPosted[j]) = BUFFER_SIZE
              /\ wPosted[j] = Stream((k - 1) * BUFFER_SIZE, k * BUFFER_SIZE)
    /\ Len(wBuffer) < BUFFER_SIZE
    /\ wBuffer = Stream(wFrames * BUFFER_SIZE, wFed)

\* C33 witness: one call of process() has posted two frames and keeps a
\* sample of its block in the buffer.
C33_Witness ==
    /\ Len(wPosted) = 2
    /\ wFrames >= 2
    /\ Len(wBuffer) > 0

\* C34 (as stated): once installed, the capture callback stays installed for
\* as long as ConnectionState remains Connected, and the handling of an
\* inbound interruption signal leaves the capture callback and the mixer
\* route as they were.
C34_CaptureStaysUp ==
    [][/\ (workletNodeRef /\ status = CONNECTED /\ status' = CONNECTED)
            => workletNodeRef'
       /\ \A s \in Sessions, m \in ContentMsgs, t \in BOOLEAN :
            (m.interrupted /\ OnMessage(s, m, t))
                => UNCHANGED <<workletNodeRef, mixVars>>]_vars

\* C35 (as stated): at most one session is open or being opened at any time;
\* a session open is initiated only when no earlier session is still open or
\* pending; and whenever a session opens, the stored handle is that session.
C35_SingleSession ==
    /\ [](Cardinality({s \in Sessions : sessions[s] \in {"connecting", "open"}}) <= 1)
    /\ [][/\ SessionOpenInitiated
              => \A s \in Sessions : sessions[s] \notin {"connecting", "open"}
          /\ \A s \in Sessions :
                (sessions[s] # "open" /\ sessions'[s] = "open") => sessionRef' = s]_vars

\* C36 (as stated): when a session opens after disconnect() was called while
\* its connect was in flight, the session is closed and no handle to it is
\* kept; and no inbound message handled while the state is Disconnected
\* schedules audio or appends a message record.
C36_DisconnectWhileConnecting ==
    [][/\ \A s \in Sessions :
            (isExplicitlyTerminatedRef /\ OnOpen(s))
                => (sessions'[s] # "open" /\ sessionRef' = NoSession)
       /\ \A s \in Sessions, m \in AudioMsgs, t \in BOOLEAN :
            (status = DISCONNECTED /\ OnMessage(s, m, t))
                => UNCHANGED <<audioProcessingChain, payloadsQueued, messages>>]_vars

\* C37: at most one reconnect timer is pending, and one is pending exactly
\* while the reconnecting flag is set; a call of handleReconnect made while
\* the flag is set (by onClose, onError, the catch block of connect or a
\* failed send) schedules no timer and leaves the attempt counter alone.
C37_SingleReconnectTimer ==
    /\ [](reconnectTimers <= 1 /\ (isReconnectingRef <=> reconnectTimers = 1))
    /\ [][(isReconnectingRef /\ HandleReconnectCalled)
            => UNCHANGED <<reconnectTimers, reconnectCountRef>>]_vars

\* C37 witness: a connect was started by the user while a reconnect timer was
\* pending, and its failure was reported while the flag was still set: the
\* timer is still the only one and the counter is where connect() put it.
C37_Witness ==
    /\ isReconnectingRef
    /\ reconnectTimers = 1
    /\ reconnectCountRef = 0
    /\ ~isExplicitlyTerminatedRef
    /\ sessionRef = NoSession
    /\ status = CONNECTING
    /\ \A s \in Sessions : sessions[s] \in {"none", "dead"}

\* C38: disconnect() leaves the state Disconnected and only a fresh connect()
\* of the user takes it out of Disconnected; while it is Disconnected, the
\* guard of sendRealtimeInput lets no call through to a session, and no call
\* of sendRealtimeInput changes the state, schedules a reconnect, or touches
\* the attempt counter or the stored handle.
C38_NoOutboundAfterDisconnect ==
    /\ [](status = DISCONNECTED
            => ~(sessionRef # NoSession /\ ~isExplicitlyTerminatedRef))
    /\ [][/\ Disconnect => status' = DISCONNECTED
          /\ (status = DISCONNECTED /\ status' # DISCONNECTED) => UserConnect
          /\ \A t \in BOOLEAN :
                (status = DISCONNECTED /\ SendRealtimeInput(t))
                    => UNCHANGED <<status, reconnectTimers, isReconnectingRef,
                                   reconnectCountRef, sessionRef, sessions>>]_vars

\* C38 witness: after a disconnect() a handle is stored again (the session
\* opened late) and its session has gone: a send would throw, and only the
\* flag keeps sendRealtimeInput from trying.
C38_Witness ==
    /\ status = DISCONNECTED
    /\ isExplicitlyTerminatedRef
    /\ sessionRef # NoSession
    /\ sessions[sessionRef] = "dead"

\* C39: at any time at most one worklet node has its port.onmessage callback
\* set, and a node has it set exactly while it is the node stored in
\* workletNodeRef.
C39_SingleCaptureCallback ==
    /\ installedCallbacks <= 1
    /\ installedCallbacks = (IF workletNodeRef THEN 1 ELSE 0)

\* C39 witness: a startRecording call has installed its callback while
\* another call is still awaiting the device.
C39_Witness ==
    /\ workletNodeRef
    /\ installedCallbacks = 1
    /\ recordingPending > 0

\* C40 (as stated): whenever a screen with an audio track is shared and the
\* capture graph is live, the screen's audio source is connected to the graph
\* (also when the share started before the graph existed, and after a
\* reconnect has rebuilt the graph).
C40_MixerRouteFollowsGraph ==
    (isScreenSharing /\ GraphLive)
        => (externalSourceRef # NoSource /\ externalConnected = {externalSourceRef})

====
